---------------------------- MODULE Spec2Model ----------------------------
(***************************************************************************)
(* Smart-home simulation: the in-process broker (IoTGateway), the device   *)
(* and sensor objects, the automation engine with its five rules, and the  *)
(* driver's two 2000 ms timers and manual commands.                        *)
(*                                                                         *)
(* Numbers.  Sensor readings are JavaScript floats; the model keeps the    *)
(* integer readings around each threshold (26 degrees, 70 %, 300 lux).     *)
(* The water temperature is kept in tenths of a degree (250 = 25.0).       *)
(* Date.now() is the variable now, counted in timer periods of 2000 ms.    *)
(* Math.random() and the wall-clock hour are inputs: a simulate() step     *)
(* hands setValue() any reading of the environment's candidate set.        *)
(***************************************************************************)
EXTENDS Integers, Sequences, FiniteSets, TLC

VARIABLES
    devices,    \* devices.js: the five device objects, by id
    sensors,    \* the six sensor objects, by id
    gateway,    \* iot-gateway.js: subscribers, registries, messageLog
    engine,     \* automation.js: rules (in insertion order), activityLog
    console,    \* what the driver's '*' subscriber has printed in the last handler
    simulationRunning,  \* the driver's pause flag
    now,        \* Date.now(), in timer periods
    phase,      \* which of the two interval timers is due next
    commands,   \* number of manual commands issued so far
    lastOp,     \* history: the handler that ran last, and what it observed
    quiet,      \* history: evaluation-timer periods through which motion has
                \* been absent and the AC on without interruption
    dark,       \* history: consecutive evaluation passes, since lighting-off
                \* last triggered, that found motion absent and a light on
    trace,      \* history: the publish calls and callback invocations of the
                \* handler that ran last, in order
    passes      \* history: sensor-simulation passes that ran since the last
                \* rule-evaluation pass that ran

vars == <<devices, sensors, gateway, engine, console, simulationRunning,
          now, phase, commands, lastOp, quiet, dark, trace, passes>>

-----------------------------------------------------------------------------
(* Bounds of the model *)

\* timer periods explored by the short-horizon specifications
MaxTicks == 2
\* manual commands per run in the short-horizon specifications
MaxCommands == 2
\* extra timer periods explored after the hvac-off threshold
HvacSlack == 2
\* extra timer periods explored after the lighting-off threshold
LightSlack == 2
\* manual commands per run in the long-horizon specifications
MaxDisturb == 3
\* extra timer periods explored after the activity log has filled
LogSlack == 2
\* calls made on the broker before the application is initialized
MaxCalls == 4
\* callbacks subscribed while the application runs
MaxSubscribes == 2
\* manual commands per run where the user sets the house up
MaxSwitches == 4
\* extra timer periods explored after the water has reached its target
HeaterSlack == 2

-----------------------------------------------------------------------------
(* Program constants *)

NULL == -1                      \* lastTriggered = null
MessageLogCap == 100
ActivityLogCap == 50
HistoryCap == 60
UpdateInterval == 2             \* seconds added to an accumulator per pass

LightIds == {"light1", "light2", "light3"}
DeviceOrder == <<"light1", "light2", "light3", "ac", "waterHeater">>
DeviceIds == {DeviceOrder[i] : i \in 1..Len(DeviceOrder)}
SensorOrder == <<"temperature", "motion", "humidity", "power", "distance", "light">>
SensorIds == {SensorOrder[i] : i \in 1..Len(SensorOrder)}
RuleOrder == <<"hvac-cooling", "hvac-off", "lighting-on", "lighting-off",
               "humidity-control">>
RuleIds == {RuleOrder[i] : i \in 1..Len(RuleOrder)}

validModes == {"cool", "heat", "auto", "fan"}
validSpeeds == {"low", "medium", "high", "auto"}

\* Sequencing: the value x, then F of it.  (x is computed once, before F.)
Then(x, F(_)) == CHOOSE r \in {F(v) : v \in {x}} : TRUE

\* What JavaScript takes a value for in a condition, and in arithmetic.
IsBoolean(v) == ToString(v) \in {"TRUE", "FALSE"}

Truthy(v) == IF IsBoolean(v) THEN v ELSE v # 0

ToNumber(v) == IF IsBoolean(v) THEN (IF v THEN 1 ELSE 0) ELSE v

\* Two values are the same value, whatever their types (a reading is a
\* number or a boolean).
SameValue(a, b) == ToString(a) = ToString(b)

Max(a, b) == IF a >= b THEN a ELSE b
Min(a, b) == IF a <= b THEN a ELSE b

\* The program state handlers work on, as one record.
World == [devices |-> devices, sensors |-> sensors, gateway |-> gateway,
          engine |-> engine, console |-> console, trace |-> trace]

-----------------------------------------------------------------------------
(* IoTGateway *)

\* What happened inside the handler that ran last, in order: each publish call
\* as it starts and as it returns, and each callback as publish invokes it.
Note(w, event) == [w EXCEPT !.trace = Append(@, event)]

subscribe(w, topic, callback) ==
    [w EXCEPT !.gateway.subscribers =
        Append(@, [topic |-> topic, callback |-> callback])]

\* The driver's wildcard subscriber: console.log(`[${topic}]`, message).
Logger(w, message, topic) ==
    [w EXCEPT !.console = Append(@, [topic |-> topic, message |-> message])]

\* subscribers: the Map from topic to callback list, kept as the subscriptions
\* in registration order; a topic's list is the subscriptions that name it,
\* given by their registration numbers.
CallbacksOf(w, topic) ==
    LET RECURSIVE Pick(_)
        Pick(i) ==
            IF i > Len(w.gateway.subscribers) THEN <<>>
            ELSE IF w.gateway.subscribers[i].topic = topic
                 THEN <<i>> \o Pick(i + 1)
                 ELSE Pick(i + 1)
    IN  Pick(1)

RECURSIVE publish(_, _, _)
RECURSIVE Deliver(_, _, _, _)

\* callback(message, topic).  "logger" is the driver's subscriber; the others
\* are what a caller of subscribe may pass: a callback that only listens
\* ("spy", "spy2", "late"), one that publishes what it hears on another topic
\* ("relay"), and ones that subscribe a further listener to the topic they
\* hear ("joinTopic") or to the wildcard ("joinAll").
Invoke(w, callback, message, topic) ==
    CASE callback = "logger" -> Logger(w, message, topic)
      [] callback = "relay" ->
            IF topic = "relay/echo" THEN w
            ELSE publish(w, "relay/echo", message)
      [] callback = "joinTopic" -> subscribe(w, topic, "late")
      [] callback = "joinAll" -> subscribe(w, "*", "late")
      [] OTHER -> w

RECURSIVE Deliver_stopsAfterRelay(_, _, _, _)
Deliver_stopsAfterRelay(w, callbacks, message, topic) ==
    IF callbacks = <<>> THEN w
    ELSE LET i == Head(callbacks)
             callback == w.gateway.subscribers[i].callback
             logEntry == [topic |-> topic, message |-> message,
                          timestamp |-> now]
         IN  Then(Note(w, [ev |-> "deliver", sub |-> i, callback |-> callback,
                           topic |-> topic, message |-> message,
                           logged |-> \E k \in 1..Len(w.gateway.messageLog) :
                                          SameValue(w.gateway.messageLog[k], logEntry)]),
                  LAMBDA w0 :
             Then(Invoke(w0, callback, message, topic), LAMBDA w1 :
             IF callback = "relay" THEN w1
             ELSE Deliver_stopsAfterRelay(w1, Tail(callbacks), message, topic)))

\* list.forEach(callback => callback(message, topic)): the callbacks the list
\* held when forEach began, in list order.
Deliver(w, callbacks, message, topic) ==
    IF callbacks = <<>> THEN w
    ELSE LET i == Head(callbacks)
             callback == w.gateway.subscribers[i].callback
             logEntry == [topic |-> topic, message |-> message,
                          timestamp |-> now]
         IN  Then(Note(w, [ev |-> "deliver", sub |-> i, callback |-> callback,
                           topic |-> topic, message |-> message,
                           logged |-> \E k \in 1..Len(w.gateway.messageLog) :
                                          SameValue(w.gateway.messageLog[k], logEntry)]),
                  LAMBDA w0 :
             Then(Invoke(w0, callback, message, topic), LAMBDA w1 :
             Deliver(w1, Tail(callbacks), message, topic)))

publish_logsLast(w, topic, message) ==
    LET logEntry == [topic |-> topic, message |-> message, timestamp |-> now]
    IN  Then(Note(w, [ev |-> "publish", topic |-> topic, message |-> message]),
             LAMBDA w0 :
        Then(Deliver(w0, CallbacksOf(w0, topic), message, topic), LAMBDA w2 :
        Then(Deliver(w2, CallbacksOf(w2, "*"), message, topic), LAMBDA w3 :
        Then([w3 EXCEPT !.gateway.messageLog =
                 IF Len(@) + 1 > MessageLogCap THEN Append(Tail(@), logEntry)
                 ELSE Append(@, logEntry)], LAMBDA w4 :
        Note(w4, [ev |-> "return", topic |-> topic, message |-> message])))))

publish_onlyIfHeard(w, topic, message) ==
    LET logEntry == [topic |-> topic, message |-> message, timestamp |-> now]
        pushed == Append(w.gateway.messageLog, logEntry)
        kept == IF Len(pushed) > MessageLogCap THEN Tail(pushed) ELSE pushed
    IN  Then(Note(w, [ev |-> "publish", topic |-> topic, message |-> message]),
             LAMBDA w0 :
        Then(IF CallbacksOf(w0, topic) \o CallbacksOf(w0, "*") = <<>> THEN w0
             ELSE [w0 EXCEPT !.gateway.messageLog = kept], LAMBDA w1 :
        Then(Deliver(w1, CallbacksOf(w1, topic), message, topic), LAMBDA w2 :
        Then(Deliver(w2, CallbacksOf(w2, "*"), message, topic), LAMBDA w3 :
        Note(w3, [ev |-> "return", topic |-> topic, message |-> message])))))

publish(w, topic, message) ==
    LET logEntry == [topic |-> topic, message |-> message, timestamp |-> now]
        pushed == Append(w.gateway.messageLog, logEntry)
        kept == IF Len(pushed) > MessageLogCap THEN Tail(pushed) ELSE pushed
    IN  Then(Note(w, [ev |-> "publish", topic |-> topic, message |-> message]),
             LAMBDA w0 :
        Then([w0 EXCEPT !.gateway.messageLog = kept], LAMBDA w1 :
        Then(Deliver(w1, CallbacksOf(w1, topic), message, topic), LAMBDA w2 :
        Then(Deliver(w2, CallbacksOf(w2, "*"), message, topic), LAMBDA w3 :
        Note(w3, [ev |-> "return", topic |-> topic, message |-> message])))))

\* Objects are known by the name of the variable that holds them.  The
\* application's own devices and sensors are held under their ids; SpareLight is
\* a second Light constructed with the id 'light1'.
SpareLight == "light1#2"

IdOf(obj) == IF obj = SpareLight THEN "light1" ELSE obj

\* Map.set(id, instance): a new key goes last, an existing key keeps its place
\* and gets the new value.
MapSet(map, id, instance) ==
    IF \E i \in 1..Len(map) : map[i].id = id
    THEN [i \in 1..Len(map) |->
            IF map[i].id = id THEN [id |-> id, instance |-> instance]
            ELSE map[i]]
    ELSE Append(map, [id |-> id, instance |-> instance])

registerDevice_unbound(w, obj) ==
    Then([w EXCEPT !.gateway.devices = MapSet(@, IdOf(obj), obj)], LAMBDA w1 :
    publish(w1, "device/registered",
            [deviceId |-> IdOf(obj), name |-> w1.devices[obj].name]))

registerDevice(w, obj) ==
    Then([w EXCEPT !.gateway.devices = MapSet(@, IdOf(obj), obj),
                   !.devices[obj].gateway = TRUE], LAMBDA w1 :
    publish(w1, "device/registered",
            [deviceId |-> IdOf(obj), name |-> w1.devices[obj].name]))

registerSensor(w, obj) ==
    Then([w EXCEPT !.gateway.sensors = MapSet(@, IdOf(obj), obj),
                   !.sensors[obj].gateway = TRUE], LAMBDA w1 :
    publish(w1, "sensor/registered",
            [sensorId |-> IdOf(obj), name |-> w1.sensors[obj].name]))

-----------------------------------------------------------------------------
(* Devices *)

\* 1500 * modeMultiplier[mode]: 1.0, 1.2, 0.8, 0.1
ModePower(mode) ==
    CASE mode = "cool" -> 1500
      [] mode = "heat" -> 1800
      [] mode = "auto" -> 1200
      [] mode = "fan"  -> 150
      [] OTHER -> 1500

getCurrentPowerConsumption_flat(d) == IF d.isOn THEN d.maxPowerWatts ELSE 0

\* Watts.  The brightness levels of the model are multiples of 5, for which
\* 60 * brightness / 100 is a whole number.
getCurrentPowerConsumption(d) ==
    IF ~d.isOn THEN 0
    ELSE CASE d.type = "light" -> (d.maxPowerWatts * d.brightness) \div 100
           [] d.type = "ac" -> ModePower(d.mode)
           [] d.type = "waterHeater" ->
                  IF d.isHeating THEN d.maxPowerWatts ELSE 50

onStateChange(w, id) ==
    LET d == w.devices[id] IN
    IF d.gateway
    THEN publish(w, "device/" \o IdOf(id) \o "/state",
                 [id |-> IdOf(id), name |-> d.name, isOn |-> d.isOn,
                  power |-> getCurrentPowerConsumption(d)])
    ELSE w

turnOn_always(w, id) ==
    Then([w EXCEPT !.devices[id].isOn = TRUE], LAMBDA w1 : onStateChange(w1, id))

turnOn(w, id) ==
    IF ~w.devices[id].isOn
    THEN Then([w EXCEPT !.devices[id].isOn = TRUE], LAMBDA w1 :
         onStateChange(w1, id))
    ELSE w

turnOff(w, id) ==
    IF w.devices[id].isOn
    THEN Then([w EXCEPT !.devices[id].isOn = FALSE], LAMBDA w1 :
         onStateChange(w1, id))
    ELSE w

toggle(w, id) == IF w.devices[id].isOn THEN turnOff(w, id) ELSE turnOn(w, id)

setBrightness(w, id, level) ==
    Then([w EXCEPT !.devices[id].brightness = Max(0, Min(100, level))],
         LAMBDA w1 :
    IF w1.devices[id].gateway
    THEN publish(w1, "device/" \o id \o "/brightness",
                 [id |-> id, brightness |-> w1.devices[id].brightness])
    ELSE w1)

setMode_unchecked(w, mode) ==
    Then([w EXCEPT !.devices["ac"].mode = mode], LAMBDA w1 :
    IF w1.devices["ac"].gateway
    THEN publish(w1, "device/ac/mode", [id |-> "ac", mode |-> mode])
    ELSE w1)

setMode(w, mode) ==
    IF mode \in validModes
    THEN Then([w EXCEPT !.devices["ac"].mode = mode], LAMBDA w1 :
         IF w1.devices["ac"].gateway
         THEN publish(w1, "device/ac/mode", [id |-> "ac", mode |-> mode])
         ELSE w1)
    ELSE w

\* AirConditioner clamps to [16, 30], WaterHeater to [30, 70].
setTargetTemperature_unclamped(w, id, temp) ==
    Then([w EXCEPT !.devices[id].targetTemperature = temp], LAMBDA w1 :
    IF w1.devices[id].gateway
    THEN publish(w1, "device/" \o id \o "/target-temp",
                 [id |-> id,
                  targetTemperature |-> w1.devices[id].targetTemperature])
    ELSE w1)

setTargetTemperature(w, id, temp) ==
    LET lo == IF id = "ac" THEN 16 ELSE 30
        hi == IF id = "ac" THEN 30 ELSE 70
    IN  Then([w EXCEPT !.devices[id].targetTemperature =
                                Max(lo, Min(hi, temp))], LAMBDA w1 :
        IF w1.devices[id].gateway
        THEN publish(w1, "device/" \o id \o "/target-temp",
                     [id |-> id,
                      targetTemperature |-> w1.devices[id].targetTemperature])
        ELSE w1)

setFanSpeed(w, speed) ==
    IF speed \in validSpeeds
    THEN [w EXCEPT !.devices["ac"].fanSpeed = speed]
    ELSE w

\* The water temperature is a double.  It is kept as currentWaterTemp, the
\* decimal value in tenths of a degree, and roundoff, what the stored double
\* differs from that decimal by, in units of 1 / (5 * 2^55) of a degree: in
\* these units a tenth of a degree is 2^54, which is 1024 modulo 5120, the
\* double nearest to 0.1 is 2^54 + 1, and 0.5 is exact.
UlpOf(tenths, roundoff) ==
    LET AtLeast(n) == tenths > 10 * n \/ (tenths = 10 * n /\ roundoff >= 0)
    IN  IF AtLeast(64) THEN 2560 ELSE IF AtLeast(32) THEN 1280 ELSE 640

\* The roundoff of the double nearest to an exact result, ties to even.
RoundToDouble(tenths, roundoff) ==
    LET ulp == UlpOf(tenths, roundoff)
        r == (1024 * tenths + roundoff) % ulp
        down == roundoff - r
        up == roundoff + ulp - r
    IN  IF 2 * r < ulp THEN down
        ELSE IF 2 * r > ulp THEN up
        ELSE IF (1024 * tenths + down) % (2 * ulp) = 0 THEN down ELSE up

\* currentWaterTemp < degrees and currentWaterTemp > degrees, on the doubles.
WaterBelow(h, degrees) ==
    \/ h.currentWaterTemp < 10 * degrees
    \/ h.currentWaterTemp = 10 * degrees /\ h.roundoff < 0

WaterAbove(h, degrees) ==
    \/ h.currentWaterTemp > 10 * degrees
    \/ h.currentWaterTemp = 10 * degrees /\ h.roundoff > 0

\* currentWaterTemp += 0.5 and currentWaterTemp -= 0.1
Warmed(h) ==
    [h EXCEPT !.currentWaterTemp = @ + 5,
              !.roundoff = RoundToDouble(h.currentWaterTemp + 5, h.roundoff)]

Cooled(h) ==
    [h EXCEPT !.currentWaterTemp = @ - 1,
              !.roundoff = RoundToDouble(h.currentWaterTemp - 1, h.roundoff - 1)]

update_atTarget(w) ==
    LET h == w.devices["waterHeater"] IN
    IF h.isOn
    THEN IF ~WaterAbove(h, h.targetTemperature)
         THEN [w EXCEPT !.devices["waterHeater"] = [Warmed(h) EXCEPT !.isHeating = TRUE]]
         ELSE [w EXCEPT !.devices["waterHeater"].isHeating = FALSE]
    ELSE IF WaterAbove(h, 25)
         THEN [w EXCEPT !.devices["waterHeater"] = [Cooled(h) EXCEPT !.isHeating = FALSE]]
         ELSE [w EXCEPT !.devices["waterHeater"].isHeating = FALSE]

\* WaterHeater.update()
update(w) ==
    LET h == w.devices["waterHeater"] IN
    IF h.isOn
    THEN IF WaterBelow(h, h.targetTemperature)
         THEN [w EXCEPT !.devices["waterHeater"] = [Warmed(h) EXCEPT !.isHeating = TRUE]]
         ELSE [w EXCEPT !.devices["waterHeater"].isHeating = FALSE]
    ELSE IF WaterAbove(h, 25)
         THEN [w EXCEPT !.devices["waterHeater"] = [Cooled(h) EXCEPT !.isHeating = FALSE]]
         ELSE [w EXCEPT !.devices["waterHeater"].isHeating = FALSE]

NewLight(name) ==
    [type |-> "light", name |-> name, isOn |-> FALSE, maxPowerWatts |-> 60,
     gateway |-> FALSE, brightness |-> 100]

NewDevices ==
    [id \in DeviceIds |->
        CASE id = "light1" -> NewLight("Living Room Light")
          [] id = "light2" -> NewLight("Bedroom Light")
          [] id = "light3" -> NewLight("Kitchen Light")
          [] id = "ac" ->
                [type |-> "ac", name |-> "Air Conditioner", isOn |-> FALSE,
                 maxPowerWatts |-> 1500, gateway |-> FALSE, mode |-> "cool",
                 targetTemperature |-> 24, fanSpeed |-> "auto"]
          [] id = "waterHeater" ->
                [type |-> "waterHeater", name |-> "Water Heater", isOn |-> FALSE,
                 maxPowerWatts |-> 2000, gateway |-> FALSE,
                 targetTemperature |-> 50, currentWaterTemp |-> 250,
                 roundoff |-> 0, isHeating |-> FALSE]]

getTotalPowerConsumption(w) ==
    LET RECURSIVE Sum(_)
        Sum(map) == IF map = <<>> THEN 0
                    ELSE getCurrentPowerConsumption(
                             w.devices[Head(map).instance])
                         + Sum(Tail(map))
    IN  Sum(w.gateway.devices)

getPowerBreakdown(w) ==
    [i \in 1..Len(w.gateway.devices) |->
        LET d == w.devices[w.gateway.devices[i].instance]
        IN  [id |-> IdOf(w.gateway.devices[i].instance), name |-> d.name,
             power |-> getCurrentPowerConsumption(d), isOn |-> d.isOn]]

-----------------------------------------------------------------------------
(* Sensors *)

NewSensor(name, unit, minValue, maxValue, value) ==
    [name |-> name, unit |-> unit, minValue |-> minValue, maxValue |-> maxValue,
     value |-> value, history |-> <<>>, gateway |-> FALSE]

NewSensors_tightPower ==
    [id \in SensorIds |->
        CASE id = "temperature" -> NewSensor("Temperature", "C", 15, 40, 25)
          [] id = "motion" -> NewSensor("Motion", "", 0, 1, FALSE)
          [] id = "humidity" -> NewSensor("Humidity", "%", 20, 80, 50)
          [] id = "power" -> NewSensor("Power Consumption", "W", 0, 3500, 0)
          [] id = "distance" -> NewSensor("Distance", "cm", 0, 500, 200)
          [] id = "light" -> NewSensor("Ambient Light", "lux", 0, 1000, 300)]

NewSensors ==
    [id \in SensorIds |->
        CASE id = "temperature" -> NewSensor("Temperature", "C", 15, 40, 25)
          [] id = "motion" -> NewSensor("Motion", "", 0, 1, FALSE)
          [] id = "humidity" -> NewSensor("Humidity", "%", 20, 80, 50)
          [] id = "power" -> NewSensor("Power Consumption", "W", 0, 5000, 0)
          [] id = "distance" -> NewSensor("Distance", "cm", 0, 500, 200)
          [] id = "light" -> NewSensor("Ambient Light", "lux", 0, 1000, 300)]

\* Sensor.setValue: clamp, record in the history (last 60), publish.
setValue(w, id, newValue) ==
    LET s == w.sensors[id]
        value == Max(s.minValue, Min(s.maxValue, newValue))
        pushed == Append(s.history, [value |-> value, timestamp |-> now])
        kept == IF Len(pushed) > HistoryCap THEN Tail(pushed) ELSE pushed
    IN  Then([w EXCEPT !.sensors[id].value = value,
                       !.sensors[id].history = kept], LAMBDA w1 :
        IF s.gateway
        THEN publish(w1, "sensor/" \o id \o "/reading",
                     [id |-> id, name |-> s.name, value |-> value,
                      unit |-> s.unit, timestamp |-> now])
        ELSE w1)

\* MotionSensor.setValue overrides it: no clamp, no history.
setMotionValue(w, detected) ==
    LET s == w.sensors["motion"] IN
    Then([w EXCEPT !.sensors["motion"].value = detected], LAMBDA w1 :
    IF s.gateway
    THEN publish(w1, "sensor/motion/reading",
                 [id |-> "motion", name |-> s.name, value |-> detected,
                  detected |-> detected, timestamp |-> now])
    ELSE w1)

\* One simulate() per sensor.  c holds what Math.random() and the clock
\* decided in this period: the reading each random walk arrives at, and
\* whether the motion sensor changes state.
simulateTemperature(w, c) == setValue(w, "temperature", c.temperature)

simulateMotion(w, c) ==
    IF c.motionFlips
    THEN setMotionValue(w, ~Truthy(w.sensors["motion"].value))
    ELSE w

simulateHumidity(w, c) == setValue(w, "humidity", c.humidity)

simulatePower(w, c) == setValue(w, "power", getTotalPowerConsumption(w))

simulateDistance(w, c) == setValue(w, "distance", c.distance)

simulateLight(w, c) == setValue(w, "light", c.light)

\* Object.values(sensors).forEach(sensor => sensor.simulate()), then
\* devices.waterHeater.update().
simulateAll(w, c) ==
    Then(simulateTemperature(w, c), LAMBDA w1 :
    Then(simulateMotion(w1, c), LAMBDA w2 :
    Then(simulateHumidity(w2, c), LAMBDA w3 :
    Then(simulatePower(w3, c), LAMBDA w4 :
    Then(simulateDistance(w4, c), LAMBDA w5 :
    Then(simulateLight(w5, c), LAMBDA w6 :
    update(w6)))))))

-----------------------------------------------------------------------------
(* Automation rules *)

NewRule(name) ==
    [name |-> name, enabled |-> TRUE, lastTriggered |-> NULL, triggerCount |-> 0]

NewRules ==
    [id \in RuleIds |->
        CASE id = "hvac-cooling" ->
                NewRule("HVAC Cooling") @@ [temperatureThreshold |-> 26]
          [] id = "hvac-off" ->
                NewRule("HVAC Auto-Off")
                    @@ [noMotionDuration |-> 0, thresholdMinutes |-> 5]
          [] id = "lighting-on" ->
                NewRule("Auto Lights On") @@ [lightThreshold |-> 300]
          [] id = "lighting-off" ->
                NewRule("Auto Lights Off")
                    @@ [noMotionDuration |-> 0, thresholdMinutes |-> 2]
          [] id = "humidity-control" ->
                NewRule("Humidity Control") @@ [highHumidityThreshold |-> 70]]

AnyLightOn(w) == \E l \in LightIds : w.devices[l].isOn

evaluateNoMotion_strict(w, id, deviceOn) ==
    LET r == w.engine.rules[id] IN
    IF ~Truthy(w.sensors["motion"].value) /\ deviceOn
    THEN LET d == r.noMotionDuration + UpdateInterval IN
         [w |-> [w EXCEPT !.engine.rules[id].noMotionDuration = d],
          result |-> d > r.thresholdMinutes * 60]
    ELSE [w |-> [w EXCEPT !.engine.rules[id].noMotionDuration = 0],
          result |-> FALSE]

\* The no-motion accumulator shared by HVACOffRule and LightingOffRule.
evaluateNoMotion(w, id, deviceOn) ==
    LET r == w.engine.rules[id] IN
    IF ~Truthy(w.sensors["motion"].value) /\ deviceOn
    THEN LET d == r.noMotionDuration + UpdateInterval IN
         [w |-> [w EXCEPT !.engine.rules[id].noMotionDuration = d],
          result |-> d >= r.thresholdMinutes * 60]
    ELSE [w |-> [w EXCEPT !.engine.rules[id].noMotionDuration = 0],
          result |-> FALSE]

hvacCoolingEvaluate_atThreshold(w) ==
    [w |-> w,
     result |-> /\ w.sensors["temperature"].value
                     >= w.engine.rules["hvac-cooling"].temperatureThreshold
                /\ Truthy(w.sensors["motion"].value)
                /\ ~w.devices["ac"].isOn]

hvacCoolingEvaluate(w) ==
    [w |-> w,
     result |-> /\ w.sensors["temperature"].value
                     > w.engine.rules["hvac-cooling"].temperatureThreshold
                /\ Truthy(w.sensors["motion"].value)
                /\ ~w.devices["ac"].isOn]

hvacOffEvaluate_ignoresMotion(w) ==
    LET r == w.engine.rules["hvac-off"]
        d == r.noMotionDuration + UpdateInterval
    IN  IF w.devices["ac"].isOn
        THEN [w |-> [w EXCEPT !.engine.rules["hvac-off"].noMotionDuration = d],
              result |-> d >= r.thresholdMinutes * 60]
        ELSE [w |-> [w EXCEPT !.engine.rules["hvac-off"].noMotionDuration = 0],
              result |-> FALSE]

hvacOffEvaluate(w) == evaluateNoMotion(w, "hvac-off", w.devices["ac"].isOn)

lightingOnEvaluate_atThreshold(w) ==
    [w |-> w,
     result |-> /\ w.sensors["light"].value
                     <= w.engine.rules["lighting-on"].lightThreshold
                /\ Truthy(w.sensors["motion"].value)
                /\ ~AnyLightOn(w)]

lightingOnEvaluate(w) ==
    [w |-> w,
     result |-> /\ w.sensors["light"].value
                     < w.engine.rules["lighting-on"].lightThreshold
                /\ Truthy(w.sensors["motion"].value)
                /\ ~AnyLightOn(w)]

lightingOffEvaluate(w) == evaluateNoMotion(w, "lighting-off", AnyLightOn(w))

humidityEvaluate(w) ==
    [w |-> w,
     result |-> /\ w.sensors["humidity"].value
                     > w.engine.rules["humidity-control"].highHumidityThreshold
                /\ w.devices["ac"].isOn]

ruleEvaluate(w, id) ==
    CASE id = "hvac-cooling" -> hvacCoolingEvaluate(w)
      [] id = "hvac-off" -> hvacOffEvaluate(w)
      [] id = "lighting-on" -> lightingOnEvaluate(w)
      [] id = "lighting-off" -> lightingOffEvaluate(w)
      [] id = "humidity-control" -> humidityEvaluate(w)

Triggered(w, id, action, reason) ==
    publish(w, "automation/triggered",
            [rule |-> id, action |-> action, reason |-> reason])

hvacCoolingExecute(w) ==
    Then(setMode(w, "cool"), LAMBDA w1 :
    Then(turnOn(w1, "ac"), LAMBDA w2 :
    Triggered(w2, "hvac-cooling", "AC turned on (cooling mode)",
              <<"Temperature", w2.sensors["temperature"].value,
                "Motion: detected">>)))

hvacOffExecute(w) ==
    Then(turnOff(w, "ac"), LAMBDA w1 :
    Then([w1 EXCEPT !.engine.rules["hvac-off"].noMotionDuration = 0], LAMBDA w2 :
    Triggered(w2, "hvac-off", "AC turned off",
              <<"No motion for minutes",
                w2.engine.rules["hvac-off"].thresholdMinutes>>)))

lightingOnExecute_allLights(w) ==
    Then(turnOn(w, "light1"), LAMBDA w1 :
    Then(turnOn(w1, "light2"), LAMBDA w2 :
    Then(turnOn(w2, "light3"), LAMBDA w3 :
    Triggered(w3, "lighting-on", "Lights turned on",
              <<"Ambient light", w3.sensors["light"].value,
                "Motion: detected">>))))

lightingOnExecute(w) ==
    Then(turnOn(w, "light1"), LAMBDA w1 :
    Then(turnOn(w1, "light2"), LAMBDA w2 :
    Triggered(w2, "lighting-on", "Lights turned on",
              <<"Ambient light", w2.sensors["light"].value,
                "Motion: detected">>)))

lightingOffExecute_keepsCount(w) ==
    Then(turnOff(w, "light1"), LAMBDA w1 :
    Then(turnOff(w1, "light2"), LAMBDA w2 :
    Then(turnOff(w2, "light3"), LAMBDA w3 :
    Triggered(w3, "lighting-off", "Lights turned off",
              <<"No motion for minutes",
                w3.engine.rules["lighting-off"].thresholdMinutes>>))))

lightingOffExecute(w) ==
    Then(turnOff(w, "light1"), LAMBDA w1 :
    Then(turnOff(w1, "light2"), LAMBDA w2 :
    Then(turnOff(w2, "light3"), LAMBDA w3 :
    Then([w3 EXCEPT !.engine.rules["lighting-off"].noMotionDuration = 0],
         LAMBDA w4 :
    Triggered(w4, "lighting-off", "Lights turned off",
              <<"No motion for minutes",
                w4.engine.rules["lighting-off"].thresholdMinutes>>)))))

humidityExecute_modeOnly(w) ==
    Then(setMode(w, "cool"), LAMBDA w1 :
    Triggered(w1, "humidity-control", "AC set to high fan for dehumidification",
              <<"Humidity", w1.sensors["humidity"].value>>))

humidityExecute(w) ==
    Then(setMode(w, "cool"), LAMBDA w1 :
    Then(setFanSpeed(w1, "high"), LAMBDA w2 :
    Triggered(w2, "humidity-control", "AC set to high fan for dehumidification",
              <<"Humidity", w2.sensors["humidity"].value>>)))

ruleExecute(w, id) ==
    CASE id = "hvac-cooling" -> hvacCoolingExecute(w)
      [] id = "hvac-off" -> hvacOffExecute(w)
      [] id = "lighting-on" -> lightingOnExecute(w)
      [] id = "lighting-off" -> lightingOffExecute(w)
      [] id = "humidity-control" -> humidityExecute(w)

run_noStamp(w, id) ==
    IF ~w.engine.rules[id].enabled THEN [w |-> w, result |-> FALSE]
    ELSE Then(ruleEvaluate(w, id), LAMBDA e :
         IF e.result
         THEN Then(ruleExecute(e.w, id), LAMBDA w1 :
              [w |-> [w1 EXCEPT !.engine.rules[id].triggerCount = @ + 1],
               result |-> TRUE])
         ELSE [w |-> e.w, result |-> FALSE])

run_evaluatesDisabled(w, id) ==
    Then(ruleEvaluate(w, id), LAMBDA e :
    IF ~w.engine.rules[id].enabled THEN [w |-> e.w, result |-> FALSE]
    ELSE IF e.result
         THEN Then(ruleExecute(e.w, id), LAMBDA w1 :
              [w |-> [w1 EXCEPT !.engine.rules[id].lastTriggered = now,
                                !.engine.rules[id].triggerCount = @ + 1],
               result |-> TRUE])
         ELSE [w |-> e.w, result |-> FALSE])

\* AutomationRule.run
run(w, id) ==
    IF ~w.engine.rules[id].enabled THEN [w |-> w, result |-> FALSE]
    ELSE Then(ruleEvaluate(w, id), LAMBDA e :
         IF e.result
         THEN Then(ruleExecute(e.w, id), LAMBDA w1 :
              [w |-> [w1 EXCEPT !.engine.rules[id].lastTriggered = now,
                                !.engine.rules[id].triggerCount = @ + 1],
               result |-> TRUE])
         ELSE [w |-> e.w, result |-> FALSE])

-----------------------------------------------------------------------------
(* Automation engine *)

\* What the claims observe of a world: the objects the rules read and write,
\* the activity log, and how many lines the console subscriber has printed.
Snapshot(w) ==
    [devices |-> w.devices,
     rules |-> w.engine.rules,
     readings |-> [id \in SensorIds |-> w.sensors[id].value],
     activityLog |-> w.engine.activityLog,
     printed |-> Len(w.console)]

pushActivity_unshift(w, id) ==
    LET pushed == <<[ruleId |-> id, ruleName |-> w.engine.rules[id].name,
                     timestamp |-> now]>> \o w.engine.activityLog
    IN  [w EXCEPT !.engine.activityLog =
            IF Len(pushed) > ActivityLogCap THEN Tail(pushed) ELSE pushed]

pushActivity_uncapped(w, id) ==
    [w EXCEPT !.engine.activityLog =
        Append(@, [ruleId |-> id, ruleName |-> w.engine.rules[id].name,
                   timestamp |-> now])]

pushActivity(w, id) ==
    LET pushed == Append(w.engine.activityLog,
                         [ruleId |-> id, ruleName |-> w.engine.rules[id].name,
                          timestamp |-> now])
    IN  [w EXCEPT !.engine.activityLog =
            IF Len(pushed) > ActivityLogCap THEN Tail(pushed) ELSE pushed]

\* AutomationEngine.evaluate: rules.forEach in insertion order.  steps records,
\* for each rule in turn, what run() returned and the world it left.
RECURSIVE evaluateFrom(_, _, _)
evaluateFrom(w, order, steps) ==
    IF order = <<>> THEN [w |-> w, steps |-> steps]
    ELSE LET id == Head(order) IN
         Then(run(w, id), LAMBDA r :
         Then(IF r.result THEN pushActivity(r.w, id) ELSE r.w, LAMBDA w1 :
         Then(Append(steps, [rule |-> id, triggered |-> r.result,
                             before |-> Snapshot(w), after |-> Snapshot(r.w)]),
              LAMBDA steps1 :
         evaluateFrom(w1, Tail(order), steps1))))

engineEvaluate(w) == evaluateFrom(w, w.engine.order, <<>>)

toggleRule(w, id) ==
    IF id \in DOMAIN w.engine.rules
    THEN [w EXCEPT !.engine.rules[id].enabled = ~@]
    ELSE w

-----------------------------------------------------------------------------
(* Driver: initializeApp, the two interval timers, the manual commands *)

RECURSIVE registerAll(_, _, _)
registerAll(w, ids, isDevice) ==
    IF ids = <<>> THEN w
    ELSE Then(IF isDevice THEN registerDevice(w, Head(ids))
              ELSE registerSensor(w, Head(ids)), LAMBDA w1 :
         registerAll(w1, Tail(ids), isDevice))

\* The objects as the scripts construct them, before DOMContentLoaded.
Constructed ==
    [devices |-> NewDevices,
     sensors |-> NewSensors,
     gateway |-> [subscribers |-> <<>>, devices |-> <<>>, sensors |-> <<>>,
                  messageLog |-> <<>>],
     engine |-> [rules |-> NewRules, order |-> RuleOrder, activityLog |-> <<>>],
     console |-> <<>>,
     trace |-> <<>>]

initializeApp(w) ==
    Then(registerAll(w, DeviceOrder, TRUE), LAMBDA w1 :
    Then(registerAll(w1, SensorOrder, FALSE), LAMBDA w2 :
    subscribe(w2, "*", "logger")))

QuietNow(w) == ~Truthy(w.sensors["motion"].value) /\ w.devices["ac"].isOn

\* What the lighting-off rule is there to notice, in a snapshot s.
DarkAt(s) == ~Truthy(s.readings["motion"]) /\ \E l \in LightIds : s.devices[l].isOn

LightingOffIndex == CHOOSE j \in 1..Len(RuleOrder) : RuleOrder[j] = "lighting-off"

\* A handler ends: the program state is w, the history records op.
Commit(w, op, q) ==
    /\ devices' = w.devices
    /\ sensors' = w.sensors
    /\ gateway' = w.gateway
    /\ engine' = w.engine
    /\ console' = w.console
    /\ trace' = w.trace
    /\ lastOp' = op
    /\ quiet' = IF QuietNow(w) THEN q ELSE 0

\* Every handler starts with a fresh console page.
Fresh == Then(World, LAMBDA w : [w EXCEPT !.console = <<>>, !.trace = <<>>])

Init ==
    /\ now = 0
    /\ LET w == initializeApp(Constructed) IN
        /\ devices = w.devices
        /\ sensors = w.sensors
        /\ gateway = w.gateway
        /\ engine = w.engine
        /\ console = w.console
        /\ trace = w.trace
    /\ simulationRunning = TRUE
    /\ phase = "sensors"
    /\ commands = 0
    /\ lastOp = [op |-> "initializeApp"]
    /\ quiet = 0
    /\ dark = 0
    /\ passes = 0

\* setInterval #1 (sensor update loop).  c is what the random sources give.
SensorTimer(c, maxTicks) ==
    /\ phase = "sensors"
    /\ now < maxTicks
    /\ now' = now + 1
    /\ phase' = "rules"
    /\ UNCHANGED <<simulationRunning, commands, dark>>
    /\ passes' = IF simulationRunning THEN passes + 1 ELSE passes
    /\ IF simulationRunning
       THEN Commit(simulateAll(Fresh, c),
                   [op |-> "simulate", ran |-> TRUE, arg |-> c], quiet)
       ELSE Commit(Fresh, [op |-> "simulate", ran |-> FALSE], quiet)

\* setInterval #2 (automation evaluation loop).
EvaluationTimer ==
    /\ phase = "rules"
    /\ phase' = "sensors"
    /\ UNCHANGED <<simulationRunning, commands, now>>
    /\ passes' = IF simulationRunning THEN 0 ELSE passes
    /\ LET q == IF QuietNow(World) THEN quiet + 1 ELSE 0 IN
       IF simulationRunning
       THEN LET e == engineEvaluate(Fresh)
                s == e.steps[LightingOffIndex]
                d == IF DarkAt(s.before) THEN dark + 1 ELSE 0
            IN  /\ Commit(e.w, [op |-> "evaluate", ran |-> TRUE,
                                steps |-> e.steps, quiet |-> q, dark |-> d], q)
                /\ dark' = IF s.triggered THEN 0 ELSE d
       ELSE /\ Commit(Fresh, [op |-> "evaluate", ran |-> FALSE], q)
            /\ UNCHANGED dark

Command(w, op, maxCommands) ==
    /\ commands < maxCommands
    /\ commands' = commands + 1
    /\ UNCHANGED <<simulationRunning, now, phase, dark, passes>>
    /\ Commit(w, op, quiet)

ToggleDevice(id, maxCommands) ==
    Command(IF id \in DeviceIds THEN toggle(Fresh, id) ELSE Fresh,
            [op |-> "toggleDevice", arg |-> id, before |-> Snapshot(Fresh)],
            maxCommands)

SetACMode(mode, maxCommands) ==
    Command(setMode(Fresh, mode),
            [op |-> "setACMode", arg |-> mode, before |-> Snapshot(Fresh)],
            maxCommands)

AdjustACTemp(delta, maxCommands) ==
    Command(setTargetTemperature(Fresh, "ac",
                                 devices["ac"].targetTemperature + delta),
            [op |-> "adjustACTemp", arg |-> delta, before |-> Snapshot(Fresh)],
            maxCommands)

AdjustWaterHeaterTemp(delta, maxCommands) ==
    Command(setTargetTemperature(Fresh, "waterHeater",
                                 devices["waterHeater"].targetTemperature + delta),
            [op |-> "adjustWaterHeaterTemp", arg |-> delta,
             before |-> Snapshot(Fresh)],
            maxCommands)

SetLightBrightness(id, level, maxCommands) ==
    Command(IF id \in LightIds THEN setBrightness(Fresh, id, level) ELSE Fresh,
            [op |-> "setLightBrightness", arg |-> <<id, level>>,
             before |-> Snapshot(Fresh)],
            maxCommands)

\* Calls made on the device objects themselves (the global devices).
TurnOn(id, maxCommands) ==
    Command(turnOn(Fresh, id),
            [op |-> "turnOn", arg |-> id, before |-> Snapshot(Fresh)],
            maxCommands)

TurnOff(id, maxCommands) ==
    Command(turnOff(Fresh, id),
            [op |-> "turnOff", arg |-> id, before |-> Snapshot(Fresh)],
            maxCommands)

SetFanSpeed(speed, maxCommands) ==
    Command(setFanSpeed(Fresh, speed),
            [op |-> "setFanSpeed", arg |-> speed, before |-> Snapshot(Fresh)],
            maxCommands)

ToggleRule(id, maxCommands) ==
    Command(toggleRule(Fresh, id),
            [op |-> "toggleRule", arg |-> id, before |-> Snapshot(Fresh)],
            maxCommands)

SetMotionDetected(detected, maxCommands) ==
    Command(setMotionValue(Fresh, detected),
            [op |-> "setMotionDetected", arg |-> detected,
             before |-> Snapshot(Fresh)],
            maxCommands)

SetTemperature(temp, maxCommands) ==
    Command(setValue(Fresh, "temperature", temp),
            [op |-> "setTemperature", arg |-> temp, before |-> Snapshot(Fresh)],
            maxCommands)

SetAmbientLight(lux, maxCommands) ==
    Command(setValue(Fresh, "light", lux),
            [op |-> "setAmbientLight", arg |-> lux, before |-> Snapshot(Fresh)],
            maxCommands)

\* Calls made on the gateway itself.  The history keeps what the broker held
\* when the call began.
BrokerBefore ==
    [subscribers |-> gateway.subscribers, messageLog |-> gateway.messageLog,
     devices |-> gateway.devices, sensors |-> gateway.sensors]

Subscribe(topic, callback, maxCalls) ==
    Command(subscribe(Fresh, topic, callback),
            [op |-> "subscribe", arg |-> <<topic, callback>>,
             before |-> Snapshot(Fresh), broker |-> BrokerBefore],
            maxCalls)

RegisterDevice(obj, maxCalls) ==
    Command(registerDevice(Fresh, obj),
            [op |-> "registerDevice", arg |-> obj,
             before |-> Snapshot(Fresh), broker |-> BrokerBefore],
            maxCalls)

RegisterSensor(obj, maxCalls) ==
    Command(registerSensor(Fresh, obj),
            [op |-> "registerSensor", arg |-> obj,
             before |-> Snapshot(Fresh), broker |-> BrokerBefore],
            maxCalls)

Publish(topic, message, maxCalls) ==
    Command(publish(Fresh, topic, message),
            [op |-> "publish", arg |-> <<topic, message>>,
             before |-> Snapshot(Fresh), broker |-> BrokerBefore],
            maxCalls)

ToggleSimulation(maxCommands) ==
    /\ commands < maxCommands
    /\ commands' = commands + 1
    /\ simulationRunning' = ~simulationRunning
    /\ UNCHANGED <<now, phase, dark, passes>>
    /\ Commit(Fresh, [op |-> "toggleSimulation"], quiet)

-----------------------------------------------------------------------------
(* Specifications.  Each one runs the same handlers in a different            *)
(* environment: which readings the random sources produce, and which manual   *)
(* commands the user issues.                                                  *)

\* Readings that leave every rule's condition false.
Calm == [temperature |-> 25, motionFlips |-> FALSE, humidity |-> 50,
         distance |-> 200, light |-> 300]

\* The cooling rule: temperature around its threshold, motion coming and going,
\* the user switching the AC, its mode and the rule.
CoolingReadings ==
    {[Calm EXCEPT !.temperature = t, !.motionFlips = f] :
        t \in {26, 27}, f \in BOOLEAN}

NextCooling ==
    \/ \E c \in CoolingReadings : SensorTimer(c, MaxTicks)
    \/ EvaluationTimer
    \/ ToggleDevice("ac", MaxCommands)
    \/ \E m \in {"heat", "dry"} : SetACMode(m, MaxCommands)
    \/ ToggleRule("hvac-cooling", MaxCommands)

SpecCooling == Init /\ [][NextCooling]_vars

\* The lighting-on rule: ambient light around its threshold, motion coming and
\* going, the user switching lights and the rule.
LightingReadings ==
    {[Calm EXCEPT !.light = l, !.motionFlips = f] :
        l \in {299, 300}, f \in BOOLEAN}

NextLighting ==
    \/ \E c \in LightingReadings : SensorTimer(c, MaxTicks)
    \/ EvaluationTimer
    \/ \E l \in {"light2", "light3"} : ToggleDevice(l, MaxCommands)
    \/ ToggleRule("lighting-on", MaxCommands)

SpecLighting == Init /\ [][NextLighting]_vars

\* The humidity rule: humidity around its threshold, the user switching the AC
\* and its mode.
HumidityReadings == {[Calm EXCEPT !.humidity = h] : h \in {70, 71}}

NextHumidity ==
    \/ \E c \in HumidityReadings : SensorTimer(c, MaxTicks)
    \/ EvaluationTimer
    \/ ToggleDevice("ac", MaxCommands)
    \/ \E m \in {"heat", "fan"} : SetACMode(m, MaxCommands)

SpecHumidity == Init /\ [][NextHumidity]_vars

\* The engine as a whole: a hot, humid, dim house in which every rule can
\* fire, the user switching rules, devices and the simulation itself.
BusyReadings ==
    {[temperature |-> 27, motionFlips |-> f, humidity |-> 71,
      distance |-> 200, light |-> 299] : f \in BOOLEAN}

Next ==
    \/ \E c \in BusyReadings : SensorTimer(c, MaxTicks)
    \/ EvaluationTimer
    \/ \E r \in RuleIds \cup {"no-such-rule"} : ToggleRule(r, MaxCommands)
    \/ \E d \in {"ac", "light3"} : ToggleDevice(d, MaxCommands)
    \/ ToggleSimulation(MaxCommands)

Spec == Init /\ [][Next]_vars

\* The hvac-off delay, undisturbed: calm readings, and a user who does nothing
\* but switch the AC on when it is off.
HvacOffTicks == 150 + HvacSlack

NextHvacOff ==
    \/ SensorTimer(Calm, HvacOffTicks)
    \/ EvaluationTimer
    \/ (~devices["ac"].isOn /\ ToggleDevice("ac", commands + 1))

SpecHvacOff == Init /\ [][NextHvacOff]_vars

\* The hvac-off delay, disturbed: calm readings, and a user who is at the
\* controls during the first periods and again around the end of the delay, and
\* switches the AC on and off there at any moment.
UserAtControls == now < HvacSlack \/ now >= 150 - HvacSlack

NextHvacDisturbed ==
    \/ SensorTimer(Calm, HvacOffTicks)
    \/ EvaluationTimer
    \/ (UserAtControls /\ ToggleDevice("ac", MaxDisturb))

SpecHvacDisturbed == Init /\ [][NextHvacDisturbed]_vars

\* The lighting-off delay: a dim house, and a user who is at the switches
\* during the first periods and again around the end of the delay, switching
\* light3 and walking in and out of the motion sensor's view.
LightOffTicks == 60 + LightSlack

Dim == [Calm EXCEPT !.light = 299]

UserAtSwitches == now < LightSlack \/ now >= 60 - LightSlack

NextLightsOff ==
    \/ SensorTimer(Dim, LightOffTicks)
    \/ EvaluationTimer
    \/ (UserAtSwitches /\ ToggleDevice("light3", MaxDisturb))
    \/ (UserAtSwitches /\ \E m \in BOOLEAN : SetMotionDetected(m, MaxDisturb))

SpecLightsOff == Init /\ [][NextLightsOff]_vars

\* A long humid, dim evening: once the AC is on the humidity rule fires on
\* every pass, and the lights come on when somebody walks in.  The user is at
\* the controls at the start and again when the activity log is about full.
ActivityTicks == ActivityLogCap + LogSlack

Humid == [Calm EXCEPT !.humidity = 71, !.light = 299]

UserNearLogCap == now < LogSlack \/ now >= ActivityLogCap - LogSlack

NextActivity ==
    \/ SensorTimer(Humid, ActivityTicks)
    \/ EvaluationTimer
    \/ (UserNearLogCap /\ ToggleDevice("ac", MaxDisturb))
    \/ (UserNearLogCap /\ SetMotionDetected(TRUE, MaxDisturb))

SpecActivity == Init /\ [][NextActivity]_vars

\* The broker on its own: the script has constructed gateway, devices, sensors
\* and engine, initializeApp has not run yet (nothing is registered, nobody is
\* subscribed, no timer is set), and a caller subscribes callbacks and
\* publishes numbered messages.
InitBroker ==
    /\ now = 0
    /\ devices = Constructed.devices
    /\ sensors = Constructed.sensors
    /\ gateway = Constructed.gateway
    /\ engine = Constructed.engine
    /\ console = Constructed.console
    /\ trace = Constructed.trace
    /\ simulationRunning = TRUE
    /\ phase = "sensors"
    /\ commands = 0
    /\ lastOp = [op |-> "construct"]
    /\ quiet = 0
    /\ dark = 0
    /\ passes = 0

PublishTopics == {"device/ac/state", "sensor/motion/reading"}

SubscribeTopics == {"device/ac/state", "*"}

Callbacks == {"spy", "relay", "joinTopic", "joinAll"}

NextBroker ==
    \/ \E t \in SubscribeTopics, c \in Callbacks : Subscribe(t, c, MaxCalls)
    \/ \E t \in PublishTopics : Publish(t, [seq |-> commands + 1], MaxCalls)

SpecBroker == InitBroker /\ [][NextBroker]_vars

\* The broker again, with a caller who also publishes on the topic string '*'.
NextWildcard ==
    \/ \E t \in SubscribeTopics, c \in {"spy", "relay"} :
            Subscribe(t, c, MaxCalls)
    \/ \E t \in PublishTopics \cup {"*"} :
            Publish(t, [seq |-> commands + 1], MaxCalls)

SpecWildcard == InitBroker /\ [][NextWildcard]_vars

\* The registries: the constructed objects and a spare Light with the id
\* 'light1', none registered yet; a caller registers them, in any order and
\* more than once, and uses them before and after.
InitRegistry ==
    /\ now = 0
    /\ devices = Constructed.devices @@ (SpareLight :> NewLight("Spare Light"))
    /\ sensors = Constructed.sensors
    /\ gateway = Constructed.gateway
    /\ engine = Constructed.engine
    /\ console = Constructed.console
    /\ trace = Constructed.trace
    /\ simulationRunning = TRUE
    /\ phase = "sensors"
    /\ commands = 0
    /\ lastOp = [op |-> "construct"]
    /\ quiet = 0
    /\ dark = 0
    /\ passes = 0

NextRegistry ==
    \/ \E d \in {"light1", SpareLight, "ac"} : RegisterDevice(d, MaxCalls)
    \/ \E x \in {"temperature", "motion"} : RegisterSensor(x, MaxCalls)
    \/ \E d \in {"light1", "ac"} : ToggleDevice(d, MaxCalls)
    \/ SetTemperature(30, MaxCalls)
    \/ SetMotionDetected(TRUE, MaxCalls)

SpecRegistry == InitRegistry /\ [][NextRegistry]_vars

\* The sensors: random walks that overshoot their ranges, and a user who
\* overrides temperature, ambient light and motion with values of any size.
WildReadings ==
    {[temperature |-> t, motionFlips |-> f, humidity |-> 81, distance |-> -1,
      light |-> 1001] : t \in {14, 41}, f \in BOOLEAN}

NextSensors ==
    \/ \E c \in WildReadings : SensorTimer(c, MaxTicks)
    \/ EvaluationTimer
    \/ \E x \in {10, 45} : SetTemperature(x, MaxCommands)
    \/ \E x \in {-5, 1200} : SetAmbientLight(x, MaxCommands)
    \/ \E x \in BOOLEAN : SetMotionDetected(x, MaxCommands)
    \/ SetMotionDetected(2, MaxCommands)

SpecSensors == Init /\ [][NextSensors]_vars

\* The running application with further subscribers: calm readings, six
\* sensor publications per period, and a caller who, at the start or when the
\* message log is about full, subscribes a listener or a republishing callback
\* to the temperature readings or to everything.
MessageTicks == MessageLogCap \div 6 + LogSlack

UserNearMessageCap ==
    now < LogSlack \/ now >= MessageLogCap \div 6 - LogSlack

NextRelay ==
    \/ SensorTimer(Calm, MessageTicks)
    \/ EvaluationTimer
    \/ (UserNearMessageCap
          /\ \E t \in {"sensor/temperature/reading", "*"},
                c \in {"spy", "relay"} : Subscribe(t, c, MaxSubscribes))

SpecRelay == Init /\ [][NextRelay]_vars

\* Power: calm readings, and a user who switches devices, dims a light and
\* changes the AC mode before the first period and after the last.
UserSetsUp == phase = "sensors" /\ now \in {0, MaxTicks}

NextPower ==
    \/ SensorTimer(Calm, MaxTicks)
    \/ EvaluationTimer
    \/ (UserSetsUp
          /\ \/ \E id \in {"light1", "light2", "ac", "waterHeater"} :
                    ToggleDevice(id, MaxSwitches)
             \/ SetLightBrightness("light1", 50, MaxSwitches)
             \/ \E mode \in {"heat", "auto", "fan"} : SetACMode(mode, MaxSwitches))

SpecPower == Init /\ [][NextPower]_vars

\* The device objects: calm readings, and a caller who, before the first period
\* and after the last, switches devices and hands the setters values inside
\* and outside what they accept.
NextDevices ==
    \/ SensorTimer(Calm, MaxTicks)
    \/ EvaluationTimer
    \/ (UserSetsUp
          /\ \/ \E id \in {"light1", "ac", "waterHeater"} :
                    \/ TurnOn(id, MaxCommands)
                    \/ TurnOff(id, MaxCommands)
                    \/ ToggleDevice(id, MaxCommands)
             \/ \E level \in {-10, 50, 100, 150} :
                    SetLightBrightness("light1", level, MaxCommands)
             \/ \E mode \in validModes \cup {"turbo"} :
                    SetACMode(mode, MaxCommands)
             \/ \E speed \in {"high", "auto", "max"} :
                    SetFanSpeed(speed, MaxCommands)
             \/ \E delta \in {-20, 1, 20} : AdjustACTemp(delta, MaxCommands)
             \/ \E delta \in {-25, 5, 25} :
                    AdjustWaterHeaterTemp(delta, MaxCommands))

SpecDevices == Init /\ [][NextDevices]_vars

\* The water heater: calm readings, long enough for water at 25 degrees to
\* reach the lowest target, 30, in steps of 0.5, and a user who switches the
\* heater and lowers its target.
HeaterTicks == ((30 - 25) * 10) \div 5 + HeaterSlack

NextHeater ==
    \/ SensorTimer(Calm, HeaterTicks)
    \/ EvaluationTimer
    \/ ToggleDevice("waterHeater", MaxCommands)
    \/ AdjustWaterHeaterTemp(-20, MaxCommands)

SpecHeater == Init /\ [][NextHeater]_vars

\* The power sensor: an evening in which somebody walks in (the lighting rule
\* switches light1 and light2 on), and a user who, between periods, switches
\* the other devices and sets the AC to its most expensive mode.
Dusk == [Calm EXCEPT !.light = 299, !.motionFlips = TRUE]

BetweenPeriods == phase = "sensors"

NextReadback ==
    \/ \E c \in {Calm, Dusk} : SensorTimer(c, MaxTicks)
    \/ EvaluationTimer
    \/ (BetweenPeriods
          /\ \/ \E id \in {"light3", "ac", "waterHeater"} :
                    ToggleDevice(id, MaxSwitches)
             \/ SetACMode("heat", MaxSwitches))

SpecReadback == Init /\ [][NextReadback]_vars

\* Automatic on, automatic off: a dim house through the lighting-off delay,
\* somebody walking in and out during the first periods, and a user who in
\* those periods switches light3 and enables or disables the lighting-off rule.
Arriving == now <= LightSlack

NextThrash ==
    \/ SensorTimer(Dim, LightOffTicks)
    \/ (Arriving /\ SensorTimer(Dusk, LightOffTicks))
    \/ EvaluationTimer
    \/ (Arriving /\ ToggleDevice("light3", MaxSwitches))
    \/ (Arriving /\ ToggleRule("lighting-off", MaxSwitches))

SpecThrash == Init /\ [][NextThrash]_vars

\* Both accumulators through their delays: calm readings with nobody about,
\* and a user who, before the first period and again when the lighting-off
\* accumulator is about to reach its threshold, switches the AC and light3 and
\* enables or disables the two off rules.
AtTheDoor == phase = "sensors" /\ now \in {0, 59}

NextAccumulators ==
    \/ SensorTimer(Calm, HvacOffTicks)
    \/ EvaluationTimer
    \/ (AtTheDoor
          /\ \/ \E id \in {"ac", "light3"} : ToggleDevice(id, MaxCommands)
             \/ \E id \in {"hvac-off", "lighting-off"} :
                    ToggleRule(id, MaxCommands))

SpecAccumulators == Init /\ [][NextAccumulators]_vars

\* A hot, dim room that somebody enters or leaves at the start and around the
\* passes where the two off rules come due, the user switching the AC off by
\* hand just before the AC rule is due.
Sultry == [Calm EXCEPT !.temperature = 27, !.light = 299]

SomebodyPasses == now \in {0, 1, 60, 149, 150}

UserAtTheAC == now >= 149

NextOpposing ==
    \/ SensorTimer(Sultry, HvacOffTicks)
    \/ (SomebodyPasses
          /\ SensorTimer([Sultry EXCEPT !.motionFlips = TRUE], HvacOffTicks))
    \/ EvaluationTimer
    \/ (UserAtTheAC /\ ToggleDevice("ac", MaxCommands))

SpecOpposing == Init /\ [][NextOpposing]_vars

-----------------------------------------------------------------------------
(* What the claims read from the history *)

EvaluatedPass == lastOp.op = "evaluate" /\ lastOp.ran

\* The step of rule id in the last evaluation pass.
StepOf(id) ==
    LET i == CHOOSE j \in 1..Len(RuleOrder) : RuleOrder[j] = id
    IN  lastOp.steps[i]

SameLights(a, b) == \A l \in LightIds : a.devices[l] = b.devices[l]

-----------------------------------------------------------------------------
(* C3: HVACCoolingRule *)

\* C3: one evaluation of the enabled hvac-cooling rule triggers exactly when
\* temperature > 26, motion is detected and the AC is off; a trigger leaves the
\* AC on in mode cool and adds exactly 1 to triggerCount; otherwise the AC's
\* isOn and mode are as before.
C3_CoolingOn ==
    EvaluatedPass =>
        LET s == StepOf("hvac-cooling")
            b == s.before
            a == s.after
        IN  b.rules["hvac-cooling"].enabled =>
              IF /\ b.readings["temperature"] > 26
                 /\ b.readings["motion"]
                 /\ ~b.devices["ac"].isOn
              THEN /\ s.triggered
                   /\ a.devices["ac"].isOn
                   /\ a.devices["ac"].mode = "cool"
                   /\ a.rules["hvac-cooling"].triggerCount
                        = b.rules["hvac-cooling"].triggerCount + 1
              ELSE /\ ~s.triggered
                   /\ a.devices["ac"].isOn = b.devices["ac"].isOn
                   /\ a.devices["ac"].mode = b.devices["ac"].mode

\* The rule fires for the first time on an AC that was off and in mode heat.
C3_Witness ==
    /\ EvaluatedPass
    /\ StepOf("hvac-cooling").triggered
    /\ StepOf("hvac-cooling").before.devices["ac"].mode = "heat"
    /\ StepOf("hvac-cooling").before.rules["hvac-cooling"].triggerCount = 0
    /\ StepOf("hvac-cooling").after.rules["hvac-cooling"].triggerCount = 1

-----------------------------------------------------------------------------
(* C4: LightingOnRule *)

\* C4: one evaluation of the enabled lighting-on rule triggers exactly when
\* all three lights are off, ambient light < 300 and motion is detected; a
\* trigger leaves light1 and light2 on and light3 off; otherwise no light
\* changes.
C4_LightsOn ==
    EvaluatedPass =>
        LET s == StepOf("lighting-on")
            b == s.before
            a == s.after
        IN  b.rules["lighting-on"].enabled =>
              IF /\ \A l \in LightIds : ~b.devices[l].isOn
                 /\ b.readings["light"] < 300
                 /\ b.readings["motion"]
              THEN /\ s.triggered
                   /\ a.devices["light1"].isOn
                   /\ a.devices["light2"].isOn
                   /\ ~a.devices["light3"].isOn
              ELSE /\ ~s.triggered
                   /\ SameLights(a, b)

C4_Witness ==
    /\ EvaluatedPass
    /\ StepOf("lighting-on").triggered
    /\ devices["light1"].isOn /\ devices["light2"].isOn /\ ~devices["light3"].isOn

-----------------------------------------------------------------------------
(* C7: HumidityRule *)

\* C7: the enabled humidity rule triggers on every pass in which humidity > 70
\* and the AC is on, and on no other; each trigger adds exactly 1 to its
\* triggerCount and leaves the AC in mode cool with fan speed high.
C7_Humidity ==
    EvaluatedPass =>
        LET s == StepOf("humidity-control")
            b == s.before
            a == s.after
        IN  b.rules["humidity-control"].enabled =>
              /\ s.triggered <=> (b.readings["humidity"] > 70 /\ b.devices["ac"].isOn)
              /\ s.triggered =>
                   /\ a.rules["humidity-control"].triggerCount
                        = b.rules["humidity-control"].triggerCount + 1
                   /\ a.devices["ac"].mode = "cool"
                   /\ a.devices["ac"].fanSpeed = "high"

\* The rule fires on a second consecutive pass, on an AC the user had put in
\* heat mode in between.
C7_Witness ==
    /\ EvaluatedPass
    /\ StepOf("humidity-control").triggered
    /\ StepOf("humidity-control").before.rules["humidity-control"].triggerCount = 1
    /\ StepOf("humidity-control").before.rules["humidity-control"].lastTriggered
         = now - 1
    /\ StepOf("humidity-control").before.devices["ac"].mode = "heat"

-----------------------------------------------------------------------------
(* C8: AutomationRule.run *)

RunContract(s) ==
    LET r == s.rule
        b == s.before
        a == s.after
    IN  IF ~b.rules[r].enabled
        THEN ~s.triggered /\ a = b
        ELSE IF s.triggered
             THEN /\ a.rules[r].triggerCount = b.rules[r].triggerCount + 1
                  /\ a.rules[r].lastTriggered = now
                  /\ a.printed > b.printed
             ELSE /\ a.rules[r].triggerCount = b.rules[r].triggerCount
                  /\ a.rules[r].lastTriggered = b.rules[r].lastTriggered

\* C8: run() of a disabled rule returns false and changes nothing (no counter,
\* no device, nothing published); run() of an enabled rule that triggers
\* executes the action, stamps lastTriggered and adds exactly 1 to
\* triggerCount; one that does not trigger leaves both as they were; and
\* triggerCount never decreases.
C8_Run ==
    /\ [](EvaluatedPass =>
            \A i \in 1..Len(lastOp.steps) : RunContract(lastOp.steps[i]))
    /\ [][\A r \in RuleIds :
            engine'.rules[r].triggerCount >= engine.rules[r].triggerCount]_vars

\* A pass in which the disabled hvac-cooling rule's condition holds while
\* another rule triggers.
C8_Witness ==
    /\ EvaluatedPass
    /\ LET b == StepOf("hvac-cooling").before IN
         /\ ~b.rules["hvac-cooling"].enabled
         /\ b.readings["temperature"] > 26
         /\ b.readings["motion"]
         /\ ~b.devices["ac"].isOn
    /\ StepOf("lighting-on").triggered

-----------------------------------------------------------------------------
(* C9: disabling a rule *)

IndexOf(id) == CHOOSE j \in 1..Len(RuleOrder) : RuleOrder[j] = id

\* The evaluation timer runs a pass in this step.
PassStep == phase = "rules" /\ phase' = "sensors" /\ simulationRunning

\* C9: in a pass, a disabled rule keeps its own fields and leaves the world as
\* it found it; and the pass ends with the same devices, broker state, activity
\* log and other rules' fields as the pass from the same state with that rule
\* enabled, whenever that rule's condition is then false.
C9_DisabledRule ==
    [][PassStep =>
        \A r \in RuleIds :
            ~engine.rules[r].enabled =>
                /\ engine'.rules[r] = engine.rules[r]
                /\ lastOp'.steps[IndexOf(r)].after = lastOp'.steps[IndexOf(r)].before
                /\ LET b == engineEvaluate(toggleRule(Fresh, r)) IN
                   ~b.steps[IndexOf(r)].triggered =>
                       /\ devices' = b.w.devices
                       /\ gateway' = b.w.gateway
                       /\ engine'.activityLog = b.w.engine.activityLog
                       /\ \A q \in RuleIds \ {r} :
                            engine'.rules[q] = b.w.engine.rules[q]]_vars

\* A pass with hvac-off disabled in which two other rules trigger.
C9_Witness ==
    /\ EvaluatedPass
    /\ ~StepOf("hvac-off").before.rules["hvac-off"].enabled
    /\ StepOf("hvac-cooling").triggered
    /\ StepOf("humidity-control").triggered

-----------------------------------------------------------------------------
(* C10: AutomationEngine.evaluate *)

RECURSIVE TriggeredEntries(_)
TriggeredEntries(steps) ==
    IF steps = <<>> THEN <<>>
    ELSE (IF Head(steps).triggered
          THEN <<[ruleId |-> Head(steps).rule,
                  ruleName |-> Head(steps).before.rules[Head(steps).rule].name]>>
          ELSE <<>>) \o TriggeredEntries(Tail(steps))

IdAndName(log) ==
    [i \in 1..Len(log) |-> [ruleId |-> log[i].ruleId, ruleName |-> log[i].ruleName]]

\* C10: a pass runs the five rules once each in insertion order, each rule
\* seeing the devices as the rule before it left them, and appends to the
\* activity log one entry (id, name) per triggered rule, in that order, and
\* nothing else.
C10_EvaluateOrder ==
    EvaluatedPass =>
        /\ [i \in 1..Len(lastOp.steps) |-> lastOp.steps[i].rule] = RuleOrder
        /\ \A i \in 1..(Len(lastOp.steps) - 1) :
              /\ lastOp.steps[i + 1].before.devices = lastOp.steps[i].after.devices
              /\ lastOp.steps[i + 1].before.rules = lastOp.steps[i].after.rules
        /\ Len(lastOp.steps[1].before.activityLog) + Len(lastOp.steps)
             <= ActivityLogCap =>
             IdAndName(engine.activityLog)
               = IdAndName(lastOp.steps[1].before.activityLog)
                   \o TriggeredEntries(lastOp.steps)

\* hvac-cooling switches the AC on and humidity-control, later in the same pass,
\* sees it on: both are logged, in that order.
C10_Witness ==
    /\ EvaluatedPass
    /\ ~StepOf("hvac-cooling").before.devices["ac"].isOn
    /\ StepOf("hvac-cooling").triggered
    /\ StepOf("humidity-control").triggered
    /\ Len(engine.activityLog) >= 2
    /\ engine.activityLog[Len(engine.activityLog)].ruleId = "humidity-control"
    /\ \E i \in 1..(Len(engine.activityLog) - 1) :
          engine.activityLog[i].ruleId = "hvac-cooling"

-----------------------------------------------------------------------------
(* C1, C2: HVACOffRule *)

\* C1: with hvac-off enabled, the AC on, motion absent throughout and the
\* accumulator starting at 0, the rule does not trigger on passes 1..149 (the
\* accumulator then stands at twice the number of passes) and triggers on pass
\* 150, which leaves the AC off, the accumulator 0 and triggerCount one higher.
C1_HvacOffAt150 ==
    EvaluatedPass =>
        LET s == StepOf("hvac-off")
            b == s.before
            a == s.after
        IN  /\ s.triggered <=> lastOp.quiet = 150
            /\ lastOp.quiet \in 1..149 =>
                 /\ a.devices["ac"].isOn
                 /\ a.rules["hvac-off"].noMotionDuration = 2 * lastOp.quiet
                 /\ a.rules["hvac-off"].triggerCount = b.rules["hvac-off"].triggerCount
            /\ lastOp.quiet = 150 =>
                 /\ ~a.devices["ac"].isOn
                 /\ a.rules["hvac-off"].noMotionDuration = 0
                 /\ a.rules["hvac-off"].triggerCount
                      = b.rules["hvac-off"].triggerCount + 1

\* The 150th pass of the first episode: the rule has triggered once, the AC is off.
C1_Witness ==
    /\ EvaluatedPass
    /\ lastOp.quiet = 150
    /\ StepOf("hvac-off").triggered
    /\ StepOf("hvac-off").before.rules["hvac-off"].noMotionDuration = 298
    /\ ~devices["ac"].isOn
    /\ engine.rules["hvac-off"].noMotionDuration = 0
    /\ engine.rules["hvac-off"].triggerCount = 1

\* C2: hvac-off triggers only if motion has been absent and the AC on without
\* interruption through the 150 evaluation periods (300 time-units) before the
\* trigger.
C2_TriggerOnlyAfterQuiet ==
    (EvaluatedPass /\ StepOf("hvac-off").triggered) => lastOp.quiet >= 150

-----------------------------------------------------------------------------
(* C5, C6: the lights *)

\* C5: no rule's run ever takes light3 from off to on, and every step of the
\* program that takes light3 from off to on is the manual command
\* toggleDevice('light3').
C5_Light3ManualOnly ==
    /\ [](EvaluatedPass =>
            \A i \in 1..Len(lastOp.steps) :
                lastOp.steps[i].before.devices["light3"].isOn
                    \/ ~lastOp.steps[i].after.devices["light3"].isOn)
    /\ [][(~devices["light3"].isOn /\ devices'["light3"].isOn)
            => (lastOp'.op = "toggleDevice" /\ lastOp'.arg = "light3")]_vars

\* lighting-on has just triggered in a pass that began with every light off:
\* light1 and light2 are on, light3 is still off.
C5_Witness ==
    /\ EvaluatedPass
    /\ StepOf("lighting-on").triggered
    /\ \A l \in LightIds : ~StepOf("lighting-on").before.devices[l].isOn
    /\ devices["light1"].isOn
    /\ devices["light2"].isOn
    /\ ~devices["light3"].isOn

\* C6: the enabled lighting-off rule triggers exactly on the 60th consecutive
\* pass that finds motion absent and at least one light on (the accumulator,
\* 2 per such pass, reaches 120); a trigger leaves all three lights off and the
\* accumulator 0; a pass that finds motion detected or every light off leaves
\* the accumulator 0 and does not trigger.
C6_LightsOffAt60 ==
    EvaluatedPass =>
        LET s == StepOf("lighting-off")
            b == s.before
            a == s.after
        IN  b.rules["lighting-off"].enabled =>
              /\ s.triggered <=> lastOp.dark = 60
              /\ s.triggered =>
                   /\ b.rules["lighting-off"].noMotionDuration = 118
                   /\ \A l \in LightIds : ~a.devices[l].isOn
                   /\ a.rules["lighting-off"].noMotionDuration = 0
              /\ ~s.triggered =>
                   /\ a.rules["lighting-off"].noMotionDuration = 2 * lastOp.dark
                   /\ SameLights(a, b)
              /\ ~DarkAt(b) =>
                   /\ ~s.triggered
                   /\ a.rules["lighting-off"].noMotionDuration = 0

\* The 60th dark pass: the lights that lighting-on had switched on, and light3
\* that the user had switched on, are all off again.
C6_Witness ==
    /\ EvaluatedPass
    /\ StepOf("lighting-off").triggered
    /\ lastOp.dark = 60
    /\ \A l \in LightIds : StepOf("lighting-off").before.devices[l].isOn
    /\ \A l \in LightIds : ~devices[l].isOn
    /\ engine.rules["lighting-off"].noMotionDuration = 0
    /\ engine.rules["lighting-on"].triggerCount = 1

-----------------------------------------------------------------------------
(* C11: the activity log's cap *)

\* The last n elements of a sequence.
LastN(seq, n) ==
    IF Len(seq) <= n THEN seq ELSE SubSeq(seq, Len(seq) - n + 1, Len(seq))

\* The records a pass owes the activity log: one per triggered rule, in order.
RECURSIVE TriggerRecords(_)
TriggerRecords(steps) ==
    IF steps = <<>> THEN <<>>
    ELSE (IF Head(steps).triggered
          THEN <<[ruleId |-> Head(steps).rule,
                  ruleName |-> Head(steps).before.rules[Head(steps).rule].name,
                  timestamp |-> now]>>
          ELSE <<>>) \o TriggerRecords(Tail(steps))

\* C11: the activity log never holds more than 50 entries, and after every pass
\* it is the last 50 of what it held before followed by the pass's trigger
\* records in trigger order: a full log loses its oldest entry to each new one.
C11_ActivityLogCap ==
    /\ Len(engine.activityLog) <= ActivityLogCap
    /\ EvaluatedPass =>
         engine.activityLog
           = LastN(lastOp.steps[1].before.activityLog \o TriggerRecords(lastOp.steps),
                   ActivityLogCap)

\* A pass that found the log one short of full and triggered two rules: the
\* log is full, its oldest entry is gone and the two new records end it.
C11_Witness ==
    /\ EvaluatedPass
    /\ Len(lastOp.steps[1].before.activityLog) = ActivityLogCap - 1
    /\ Len(TriggerRecords(lastOp.steps)) = 2
    /\ Len(engine.activityLog) = ActivityLogCap
    /\ engine.activityLog[1] = lastOp.steps[1].before.activityLog[2]
    /\ engine.activityLog[ActivityLogCap].ruleId = "humidity-control"
    /\ engine.activityLog[ActivityLogCap - 1].ruleId = "lighting-on"

-----------------------------------------------------------------------------
(* C13 .. C16: IoTGateway.publish and subscribe *)

\* The call that ran last was publish.
Published == lastOp.op = "publish"

\* The subscriptions, by registration number, that a publication on topic
\* reaches among subs.
Reached(subs, topic) ==
    {k \in 1..Len(subs) : subs[k].topic \in {topic, "*"}}

\* C13: publish on a topic nobody is subscribed to, with no wildcard
\* subscriber, returns normally, invokes no callback and appends exactly one
\* entry, the publication, to the message log.
C13_PublishUnheard ==
    (Published /\ Reached(lastOp.broker.subscribers, lastOp.arg[1]) = {}) =>
        /\ trace = <<[ev |-> "publish", topic |-> lastOp.arg[1],
                      message |-> lastOp.arg[2]],
                     [ev |-> "return", topic |-> lastOp.arg[1],
                      message |-> lastOp.arg[2]]>>
        /\ console = <<>>
        /\ gateway.subscribers = lastOp.broker.subscribers
        /\ gateway.messageLog
             = Append(lastOp.broker.messageLog,
                      [topic |-> lastOp.arg[1], message |-> lastOp.arg[2],
                       timestamp |-> now])

\* A publication on a topic without subscribers while another topic has one.
C13_Witness ==
    /\ Published
    /\ lastOp.broker.subscribers # <<>>
    /\ Reached(lastOp.broker.subscribers, lastOp.arg[1]) = {}
    /\ Len(gateway.messageLog) = Len(lastOp.broker.messageLog) + 1
    /\ gateway.messageLog[Len(gateway.messageLog)].topic = lastOp.arg[1]

\* How many publish calls are in progress just before event i of the trace.
RECURSIVE Depth(_)
Depth(i) ==
    IF i = 1 THEN 0
    ELSE Depth(i - 1) + (CASE trace[i - 1].ev = "publish" -> 1
                           [] trace[i - 1].ev = "return" -> -1
                           [] OTHER -> 0)

PublishCalls == {i \in 1..Len(trace) : trace[i].ev = "publish"}

\* Where the publish call that starts at event i returns; 0 if it does not.
ReturnOf(i) ==
    LET later == {j \in (i + 1)..Len(trace) :
                     trace[j].ev = "return" /\ Depth(j) = Depth(i) + 1}
    IN  IF later = {} THEN 0 ELSE CHOOSE j \in later : \A k \in later : j <= k

\* The callback invocations made by the publish call that starts at event i
\* itself (not by publish calls nested in it).
DeliveriesOf(i) ==
    {k \in (i + 1)..Len(trace) :
        /\ k < ReturnOf(i)
        /\ trace[k].ev = "deliver"
        /\ Depth(k) = Depth(i) + 1}

\* C14: of two callbacks that receive the same publication, the one subscribed
\* earlier is invoked first, whether subscribed to the topic or to the wildcard.
C14_RegistrationOrder ==
    Published =>
        \A i \in PublishCalls : \A k1, k2 \in DeliveriesOf(i) :
            k1 < k2 => trace[k1].sub < trace[k2].sub

\* C15: however publish calls nest, every one of them returns, the outermost
\* last of all; its publication is in the log by then and, before it returns,
\* has been handed exactly once to every subscription that the topic or the
\* wildcard had when the handler began, those after a publishing callback
\* included.
C15_NoLostMessage ==
    Published =>
        /\ ReturnOf(1) = Len(trace)
        /\ \A i \in PublishCalls :
              /\ ReturnOf(i) # 0
              /\ \E e \in 1..Len(gateway.messageLog) :
                    gateway.messageLog[e]
                      = [topic |-> trace[i].topic, message |-> trace[i].message,
                         timestamp |-> now]
              /\ \A k \in DeliveriesOf(i) :
                    /\ trace[k].topic = trace[i].topic
                    /\ trace[k].message = trace[i].message
                    /\ trace[k].logged
              /\ \A r \in Reached(lastOp.broker.subscribers, trace[i].topic) :
                    \E k \in DeliveriesOf(i) :
                        /\ trace[k].sub = r
                        /\ \A k2 \in DeliveriesOf(i) : trace[k2].sub = r => k2 = k

\* A callback published while the outer publication was being delivered: the
\* nested publication reached a subscriber and returned, and the outer one then
\* went on to a further subscriber.
C15_Witness ==
    /\ Published
    /\ \E i \in PublishCalls :
          /\ i > 1
          /\ DeliveriesOf(i) # {}
          /\ \E k \in DeliveriesOf(1) :
                /\ k > ReturnOf(i)
                /\ trace[k].callback = "spy"
    /\ ReturnOf(1) = Len(trace)

\* C16: a publish call invokes only subscriptions that existed when it began;
\* a callback subscribed while it is delivering is not invoked for it.
C16_SnapshotDelivery ==
    Published =>
        \A k \in DeliveriesOf(1) : trace[k].sub <= Len(lastOp.broker.subscribers)

-----------------------------------------------------------------------------
(* C12: the message log's cap *)

\* The log entries a handler's publish calls owe the message log, in call
\* order, nested calls included.
RECURSIVE CallEntries(_, _)
CallEntries(events, stamp) ==
    IF events = <<>> THEN <<>>
    ELSE (IF Head(events).ev = "publish"
          THEN <<[topic |-> Head(events).topic, message |-> Head(events).message,
                  timestamp |-> stamp]>>
          ELSE <<>>) \o CallEntries(Tail(events), stamp)

\* C12: the message log never holds more than 100 entries; every handler
\* leaves it as the last 100 of what it held followed by the handler's
\* publications in publish-call order, those made from inside callbacks
\* included; and whenever a callback is invoked the publication it receives is
\* already in the log.
C12_MessageLogCap ==
    /\ [](Len(gateway.messageLog) <= MessageLogCap)
    /\ [](\A k \in 1..Len(trace) : trace[k].ev = "deliver" => trace[k].logged)
    /\ [][gateway'.messageLog
            = LastN(gateway.messageLog \o CallEntries(trace', now),
                    MessageLogCap)]_vars

\* The log is full and has lost entries, and the handler that ran last made a
\* publication from inside a callback.
C12_Witness ==
    /\ Len(gateway.messageLog) = MessageLogCap
    /\ gateway.messageLog[1].topic # "device/registered"
    /\ \E i \in PublishCalls : Depth(i) = 1 /\ trace[i].topic = "relay/echo"
    /\ gateway.messageLog[MessageLogCap].topic = "sensor/light/reading"

-----------------------------------------------------------------------------
(* C17, C18: the registries *)

Registered(map) == {map[i].id : i \in 1..Len(map)}

\* C17: registering a device or sensor under an id the registry already holds
\* changes neither registry: the instance registered first stays.
C17_DuplicateIsNoOp ==
    /\ (lastOp.op = "registerDevice"
          /\ IdOf(lastOp.arg) \in Registered(lastOp.broker.devices)) =>
            /\ gateway.devices = lastOp.broker.devices
            /\ gateway.sensors = lastOp.broker.sensors
    /\ (lastOp.op = "registerSensor"
          /\ IdOf(lastOp.arg) \in Registered(lastOp.broker.sensors)) =>
            /\ gateway.devices = lastOp.broker.devices
            /\ gateway.sensors = lastOp.broker.sensors

\* The topics of the publish calls of the handler that ran last, in order.
PublishedTopics ==
    LET RECURSIVE Topics(_)
        Topics(events) ==
            IF events = <<>> THEN <<>>
            ELSE (IF Head(events).ev = "publish" THEN <<Head(events).topic>>
                  ELSE <<>>) \o Topics(Tail(events))
    IN  Topics(trace)

-----------------------------------------------------------------------------
(* C19, C20: Sensor.setValue *)

Clamped(id, x) ==
    Max(sensors[id].minValue, Min(sensors[id].maxValue, ToNumber(x)))

\* The handler that ran last called setValue on sensor id: a manual override,
\* or a simulate() that always writes.
Wrote(op, id) ==
    \/ op.op = "setTemperature" /\ id = "temperature"
    \/ op.op = "setAmbientLight" /\ id = "light"
    \/ op.op = "setMotionDetected" /\ id = "motion"
    \/ /\ op.op = "simulate"
       /\ op.ran
       /\ id \in {"temperature", "humidity", "power", "distance", "light"}

\* The x of that setValue(x), where the handler's inputs tell it: the power
\* sensor is given the gateway's total at that moment.
Requested(op, id) == ~(op.op = "simulate" /\ id = "power")

WrittenValue(op, id) == IF op.op = "simulate" THEN op.arg[id] ELSE op.arg

\* C19: every sensor's value lies within [min, max] after any setValue(x), by
\* simulate() or by a manual override, and is x clamped to that range (a
\* boolean counted as 0 or 1).
C19_ValueClamped ==
    \A id \in SensorIds :
        Wrote(lastOp, id) =>
            /\ ToNumber(sensors[id].value) >= sensors[id].minValue
            /\ ToNumber(sensors[id].value) <= sensors[id].maxValue
            /\ Requested(lastOp, id) =>
                   ToNumber(sensors[id].value)
                     = Clamped(id, WrittenValue(lastOp, id))

\* C20: a setValue call appends the value it stored to the sensor's history,
\* evicting the oldest entry once there are more than 60: the history is the
\* last 60 values written, in write order, the newest last.
C20_HistoryKept ==
    /\ [](\A id \in SensorIds : Len(sensors[id].history) <= HistoryCap)
    /\ [][\A id \in SensorIds :
            Wrote(lastOp', id) =>
                sensors'[id].history
                  = LastN(Append(sensors[id].history,
                                 [value |-> sensors'[id].value,
                                  timestamp |-> now]),
                          HistoryCap)]_vars

-----------------------------------------------------------------------------
(* C21: what one setValue call leaves behind *)

\* The publish calls the last handler made on a topic, in order.
PublishedIn(events, topic) ==
    SelectSeq(events, LAMBDA e : e.ev = "publish" /\ e.topic = topic)

PublishedOn(topic) == PublishedIn(trace, topic)

\* C21: a setValue call on a registered sensor, the motion sensor included,
\* appends exactly one (value, timestamp) entry to that sensor's history and
\* publishes exactly one message on 'sensor/<id>/reading', carrying the value
\* it stored.
C21_WriteRecorded ==
    [][\A id \in SensorIds :
        Wrote(lastOp', id) =>
            LET readings == PublishedOn("sensor/" \o id \o "/reading")'
                history == sensors'[id].history
            IN  /\ Len(history) = Min(Len(sensors[id].history) + 1, HistoryCap)
                /\ SameValue(history[Len(history)].value, sensors'[id].value)
                /\ history[Len(history)].timestamp = now
                /\ Len(readings) = 1
                /\ SameValue(readings[1].message.value, sensors'[id].value)]_vars

-----------------------------------------------------------------------------
(* C22: total power *)

\* p is the power the specification gives device d in its current state.
IsPowerOf(p, d) ==
    IF ~d.isOn THEN p = 0
    ELSE CASE d.type = "light" -> 100 * p = 60 * d.brightness
           [] d.type = "ac" ->
                  10 * p = 1500 * (CASE d.mode = "cool" -> 10
                                     [] d.mode = "heat" -> 12
                                     [] d.mode = "auto" -> 8
                                     [] d.mode = "fan" -> 1)
           [] d.type = "waterHeater" -> p = (IF d.isHeating THEN 2000 ELSE 50)

RECURSIVE SumOfPowers(_)
SumOfPowers(breakdown) ==
    IF breakdown = <<>> THEN 0
    ELSE Head(breakdown).power + SumOfPowers(Tail(breakdown))

\* C22: getPowerBreakdown() lists, for each registered device in turn, its id,
\* name, isOn and the power of its type's formula at its current state, and
\* getTotalPowerConsumption() is the sum of these terms.
C22_TotalPower ==
    LET breakdown == getPowerBreakdown(World) IN
    /\ Len(breakdown) = Len(DeviceOrder)
    /\ \A i \in 1..Len(breakdown) :
          /\ breakdown[i].id = DeviceOrder[i]
          /\ breakdown[i].name = devices[DeviceOrder[i]].name
          /\ breakdown[i].isOn = devices[DeviceOrder[i]].isOn
          /\ IsPowerOf(breakdown[i].power, devices[DeviceOrder[i]])
    /\ getTotalPowerConsumption(World) = SumOfPowers(breakdown)

\* One light on at 50 % (30 W), the AC on in cool mode (1500 W), the water
\* heater on and not heating (50 W): 1580 W.
C22_Witness ==
    /\ devices["light1"].isOn /\ devices["light1"].brightness = 50
    /\ ~devices["light2"].isOn /\ ~devices["light3"].isOn
    /\ devices["ac"].isOn /\ devices["ac"].mode = "cool"
    /\ devices["waterHeater"].isOn /\ ~devices["waterHeater"].isHeating
    /\ getTotalPowerConsumption(World) = 1580

-----------------------------------------------------------------------------
(* C23..C27: device mutators *)

\* The last handler called nothing on the broker and no subscriber ran.
Silent == trace = <<>> /\ console = <<>>

\* C23: turnOn() on a device that is on and turnOff() on a device that is off
\* change no device field, add nothing to the message log and invoke no
\* subscriber; otherwise they flip isOn and publish exactly one
\* 'device/<id>/state' message carrying the new isOn.
C23_TurnOnIdempotent ==
    [][lastOp'.op \in {"turnOn", "turnOff"} =>
        LET id == lastOp'.arg
            wanted == lastOp'.op = "turnOn"
        IN  IF devices[id].isOn = wanted
            THEN /\ devices' = devices
                 /\ gateway' = gateway
                 /\ Silent'
            ELSE /\ devices' = [devices EXCEPT ![id].isOn = wanted]
                 /\ Len(gateway'.messageLog) = Len(gateway.messageLog) + 1
                 /\ Len(SelectSeq(trace', LAMBDA e : e.ev = "publish")) = 1
                 /\ Len(PublishedIn(trace', "device/" \o id \o "/state")) = 1
                 /\ PublishedIn(trace', "device/" \o id \o "/state")[1].message.isOn
                      = wanted]_vars

\* turnOn() has just been called on the AC, which was on: nothing was said.
C23_Witness ==
    /\ lastOp.op = "turnOn"
    /\ lastOp.arg = "ac"
    /\ lastOp.before.devices["ac"].isOn
    /\ devices["ac"].isOn
    /\ Silent

\* The handlers that call one device mutator, and the device they call it on.
MutatorOps ==
    {"turnOn", "turnOff", "toggleDevice", "setLightBrightness", "setACMode",
     "adjustACTemp", "adjustWaterHeaterTemp", "setFanSpeed"}

SetterOps ==
    {"setLightBrightness", "setACMode", "adjustACTemp",
     "adjustWaterHeaterTemp", "setFanSpeed"}

TargetOf(op) ==
    CASE op.op \in {"turnOn", "turnOff", "toggleDevice"} -> op.arg
      [] op.op = "setLightBrightness" -> op.arg[1]
      [] op.op \in {"setACMode", "adjustACTemp", "setFanSpeed"} -> "ac"
      [] op.op = "adjustWaterHeaterTemp" -> "waterHeater"

\* The topics a device publishes on.
DeviceTopics(id) ==
    {"device/" \o id \o "/" \o what :
        what \in {"state", "brightness", "mode", "target-temp"}}

PublishedByDevice(events, id) ==
    SelectSeq(events, LAMBDA e : /\ e.ev = "publish"
                                 /\ e.topic \in DeviceTopics(id)
                                 /\ e.message.id = id)

\* C24: a mutator call on a registered device that changes the device
\* publishes a message on one of the device's topics during that call.
C24_ChangePublished ==
    [][lastOp'.op \in MutatorOps =>
        LET id == TargetOf(lastOp') IN
        devices'[id] # devices[id] => PublishedByDevice(trace', id) # <<>>]_vars

\* C25: a parameter setter called with a value that leaves the device exactly
\* as it was publishes nothing: the message log is as before and no subscriber
\* runs.
C25_NoOpSetterSilent ==
    [][lastOp'.op \in SetterOps /\ devices' = devices =>
        /\ gateway'.messageLog = gateway.messageLog
        /\ Silent']_vars

\* C26: setMode(m) with m not a mode and setFanSpeed(s) with s not a speed are
\* ignored: the handler returns, no device field changes, nothing is
\* published; the AC's mode and fan speed are always legal.
C26_IllegalValueIgnored ==
    /\ [](devices["ac"].mode \in validModes
            /\ devices["ac"].fanSpeed \in validSpeeds)
    /\ [][\/ lastOp'.op = "setACMode" /\ lastOp'.arg \notin validModes
          \/ lastOp'.op = "setFanSpeed" /\ lastOp'.arg \notin validSpeeds
          => /\ devices' = devices
             /\ gateway' = gateway
             /\ Silent']_vars

\* setACMode('turbo') has returned; the AC is as it was.
C26_Witness ==
    /\ lastOp.op = "setACMode"
    /\ lastOp.arg = "turbo"
    /\ devices["ac"] = lastOp.before.devices["ac"]
    /\ Silent

\* x brought to the nearest bound of [lo, hi].
Nearest(lo, hi, x) == IF x < lo THEN lo ELSE IF x > hi THEN hi ELSE x

\* C27: the AC's target temperature stays in [16, 30], the water heater's in
\* [30, 70] and every light's brightness in [0, 100], and each setter stores
\* its argument brought to the nearest legal bound.
C27_SettersClamp ==
    /\ [](/\ devices["ac"].targetTemperature \in 16..30
          /\ devices["waterHeater"].targetTemperature \in 30..70
          /\ \A l \in LightIds : devices[l].brightness \in 0..100)
    /\ [][/\ lastOp'.op = "adjustACTemp" =>
                devices'["ac"].targetTemperature
                  = Nearest(16, 30, devices["ac"].targetTemperature
                                      + lastOp'.arg)
          /\ lastOp'.op = "adjustWaterHeaterTemp" =>
                devices'["waterHeater"].targetTemperature
                  = Nearest(30, 70, devices["waterHeater"].targetTemperature
                                      + lastOp'.arg)
          /\ lastOp'.op = "setLightBrightness" =>
                devices'[lastOp'.arg[1]].brightness
                  = Nearest(0, 100, lastOp'.arg[2])]_vars

\* Each setter has been handed a value beyond a bound: the AC asked for 44
\* degrees holds 30, and light1 asked for -10 % holds 0.
C27_Witness ==
    /\ lastOp.op = "setLightBrightness"
    /\ lastOp.arg = <<"light1", -10>>
    /\ devices["light1"].brightness = 0
    /\ devices["ac"].targetTemperature = 30
    /\ lastOp.before.devices["ac"].targetTemperature = 30

-----------------------------------------------------------------------------
(* C28: WaterHeater.update *)

SimulatedPass == lastOp.op = "simulate" /\ lastOp.ran

\* C28: update() on a heater that is on and below its target adds 0.5 to the
\* water temperature and sets isHeating; on and at or above the target it
\* leaves the temperature and clears isHeating; off, it takes 0.1 off a
\* temperature above 25 and clears isHeating.  No other field of any device
\* changes and no device publishes.  (Temperatures in tenths of a degree; what
\* the double arithmetic leaves beside the decimal value is not constrained.)
C28_HeaterUpdate ==
    [][SimulatedPass' =>
        LET h == devices["waterHeater"]
            temp == h.currentWaterTemp
            after == IF h.isOn
                     THEN IF WaterBelow(h, h.targetTemperature)
                          THEN [temp |-> temp + 5, isHeating |-> TRUE]
                          ELSE [temp |-> temp, isHeating |-> FALSE]
                     ELSE IF WaterAbove(h, 25)
                          THEN [temp |-> temp - 1, isHeating |-> FALSE]
                          ELSE [temp |-> temp, isHeating |-> FALSE]
        IN  /\ devices' = [devices EXCEPT
                             !["waterHeater"].currentWaterTemp = after.temp,
                             !["waterHeater"].roundoff =
                                 IF after.temp = temp THEN @
                                 ELSE devices'["waterHeater"].roundoff,
                             !["waterHeater"].isHeating = after.isHeating]
            /\ \A id \in DeviceIds : PublishedByDevice(trace', id) = <<>>]_vars

\* The heater, on with its target at 30, has brought the water to 30.0 and
\* update() has found it there: isHeating is cleared, the temperature stays.
C28_Witness ==
    /\ SimulatedPass
    /\ devices["waterHeater"].isOn
    /\ devices["waterHeater"].targetTemperature = 30
    /\ devices["waterHeater"].currentWaterTemp = 300
    /\ ~devices["waterHeater"].isHeating

-----------------------------------------------------------------------------
(* C29: the two timers *)

\* C29: every rule-evaluation pass that runs comes after exactly one
\* sensor-simulation pass that ran since the evaluation pass before it,
\* however the timer callbacks interleave with pause, resume and commands.
C29_SimulateThenEvaluate ==
    [][phase = "rules" /\ phase' = "sensors" /\ simulationRunning
          => passes = 1]_vars

-----------------------------------------------------------------------------
(* C30: the power sensor *)

\* C30: the gateway's total always lies within the power sensor's bounds, and
\* PowerSensor.simulate() stores exactly the total the gateway computes when
\* it is called (no device changes in a pass before the heater's update()).
C30_PowerReadback ==
    /\ [](/\ getTotalPowerConsumption(World) >= sensors["power"].minValue
          /\ getTotalPowerConsumption(World) <= sensors["power"].maxValue)
    /\ [][SimulatedPass' =>
            sensors'["power"].value = getTotalPowerConsumption(World)]_vars

\* Everything on at full draw: three lights at 100 %, the AC heating, the
\* water heater heating; the sensor has read 180 + 1800 + 2000 W.
C30_Witness ==
    /\ SimulatedPass
    /\ \A id \in DeviceIds : devices[id].isOn
    /\ devices["ac"].mode = "heat"
    /\ devices["waterHeater"].isHeating
    /\ sensors["power"].value = 3980

-----------------------------------------------------------------------------
(* C31: one delivery per subscription *)

\* C31: whatever the topic string, '*' included, a publish call invokes each
\* subscription that matches it exactly once: no subscription is handed the
\* same publication twice.
C31_OncePerSubscription ==
    Published =>
        \A i \in PublishCalls :
            /\ \A k1, k2 \in DeliveriesOf(i) :
                  trace[k1].sub = trace[k2].sub => k1 = k2
            /\ \A r \in Reached(lastOp.broker.subscribers, trace[i].topic) :
                  \E k \in DeliveriesOf(i) : trace[k].sub = r

-----------------------------------------------------------------------------
(* C32: no automatic off before the delay has run *)

\* Evaluation passes from the one in which rule id last triggered to the one
\* that ran last (one pass per timer period while the simulation runs).
PassesSince(id) == now - engine.rules[id].lastTriggered

\* C32: lighting-off triggers neither in the pass in which lighting-on
\* triggered nor in the 59 passes after it, and hvac-off neither in the pass
\* in which hvac-cooling triggered nor in the 149 passes after it.
C32_NoEarlyAutoOff ==
    EvaluatedPass =>
        /\ (/\ StepOf("lighting-off").triggered
            /\ engine.rules["lighting-on"].lastTriggered # NULL)
              => PassesSince("lighting-on") >= 60
        /\ (/\ StepOf("hvac-off").triggered
            /\ engine.rules["hvac-cooling"].lastTriggered # NULL)
              => PassesSince("hvac-cooling") >= 150

-----------------------------------------------------------------------------
(* C33: the heating flag *)

\* C33: a water heater that is flagged as heating is on.
C33_HeatingImpliesOn ==
    devices["waterHeater"].isHeating => devices["waterHeater"].isOn

-----------------------------------------------------------------------------
(* C34: the accumulators between passes *)

\* C34: an evaluation pass leaves the hvac-off accumulator an even number in
\* [0, 298] and the lighting-off accumulator an even number in [0, 118].
C34_AccumulatorsBelowThreshold ==
    EvaluatedPass =>
        /\ engine.rules["hvac-off"].noMotionDuration
             \in {2 * n : n \in 0..149}
        /\ engine.rules["lighting-off"].noMotionDuration
             \in {2 * n : n \in 0..59}

\* The pass before hvac-off triggers: its accumulator stands at 298, and the
\* lighting-off rule, which has triggered once, is back at 0.
C34_Witness ==
    /\ EvaluatedPass
    /\ engine.rules["hvac-off"].noMotionDuration = 298
    /\ engine.rules["lighting-off"].noMotionDuration = 0
    /\ engine.rules["lighting-off"].triggerCount = 1

\* C35: within one evaluation pass the two rules of an opposing pair never both
\* trigger: not hvac-cooling together with hvac-off, and not lighting-on
\* together with lighting-off.
C35_OpposingRulesExclusive ==
    EvaluatedPass =>
        /\ ~(StepOf("hvac-cooling").triggered /\ StepOf("hvac-off").triggered)
        /\ ~(StepOf("lighting-on").triggered /\ StepOf("lighting-off").triggered)

\* The cooling rule triggers in the very pass in which the off rule, one
\* period short of its threshold, would have come due.
C35_Witness ==
    /\ EvaluatedPass
    /\ StepOf("hvac-cooling").triggered
    /\ StepOf("hvac-off").before.rules["hvac-off"].noMotionDuration = 298
    /\ ~StepOf("hvac-off").triggered
    /\ engine.rules["lighting-off"].triggerCount >= 1

RECURSIVE SumOfTriggerCounts(_, _)
SumOfTriggerCounts(rules, ids) ==
    IF ids = {} THEN 0
    ELSE LET id == CHOOSE x \in ids : TRUE
         IN  rules[id].triggerCount + SumOfTriggerCounts(rules, ids \ {id})

TotalTriggers == SumOfTriggerCounts(engine.rules, RuleIds)

\* C36: with rules run only by AutomationEngine.evaluate() and none removed or
\* replaced, the activity log holds min(50, sum of all triggerCounts) entries,
\* and a rule's lastTriggered is null exactly when its triggerCount is 0.
C36_LogCountsTriggers ==
    /\ Len(engine.activityLog)
          = (IF TotalTriggers < ActivityLogCap THEN TotalTriggers ELSE ActivityLogCap)
    /\ \A id \in RuleIds :
          engine.rules[id].lastTriggered = NULL <=> engine.rules[id].triggerCount = 0

\* More triggers than the log keeps, by more than one rule, with a rule that
\* has never triggered.
C36_Witness ==
    /\ EvaluatedPass
    /\ TotalTriggers > ActivityLogCap
    /\ Len(engine.activityLog) = ActivityLogCap
    /\ Cardinality({id \in RuleIds : engine.rules[id].triggerCount > 0}) >= 2
    /\ \E id \in RuleIds : engine.rules[id].lastTriggered = NULL

\* The number of 0.5 steps update() takes to bring the water of heater h to
\* its target.
RECURSIVE StepsToTarget(_)
StepsToTarget(h) ==
    IF WaterBelow(h, h.targetTemperature) THEN 1 + StepsToTarget(Warmed(h)) ELSE 0

\* C37: a heater that stays on with its target unchanged is, after at most as
\* many update() ticks as there are 0.5 steps from the water temperature to
\* the target, no longer heating, at a temperature that no longer changes and
\* drawing the 50 W standby power (each tick takes one step off, and with no
\* step left the heater is at standby and stays there); and the water
\* temperature is never below the ambient floor of 25 degrees.
C37_HeaterSettles ==
    /\ [](~WaterBelow(devices["waterHeater"], 25))
    /\ []((devices["waterHeater"].isOn /\ StepsToTarget(devices["waterHeater"]) = 0)
            => /\ ~devices["waterHeater"].isHeating
               /\ getCurrentPowerConsumption(devices["waterHeater"]) = 50)
    /\ [][(SimulatedPass' /\ devices["waterHeater"].isOn)
            => LET h == devices["waterHeater"]
                   n == StepsToTarget(h)
               IN  /\ StepsToTarget(devices'["waterHeater"]) = (IF n > 0 THEN n - 1 ELSE 0)
                   /\ n = 0 => /\ devices'["waterHeater"].currentWaterTemp = h.currentWaterTemp
                               /\ devices'["waterHeater"].roundoff = h.roundoff]_vars

=============================================================================
